---- MODULE Spec2Model ----
(***************************************************************************)
(* A model of the fry-vision image quality-analysis engine                 *)
(* (CV Engine V2, src/unnamed/part_001).                                   *)
(*                                                                         *)
(* Numbers.  The engine computes in IEEE doubles; the model computes in    *)
(* integers.  Quantities that the code derives by exact rational           *)
(* arithmetic from small integers are kept exact (cross-multiplied         *)
(* comparisons, explicit rounding); the composite index is computed in     *)
(* units of 1/PQU.  Saturation, value and the means over pixels and cells  *)
(* are fixed point in units of 1/ONE, rounded down, so a comparison whose  *)
(* two sides differ by less than a few 1/ONE, or which is an exact tie     *)
(* that the doubles decide by their rounding error, may come out the other *)
(* way in the model.  The colours and sizes of the images offered to the   *)
(* engine below are chosen to keep the comparisons of the code away from   *)
(* their thresholds.                                                       *)
(***************************************************************************)
EXTENDS Integers, Sequences, FiniteSets, TLC

VARIABLES
    scores,     \* the four attribute scores handed to calculatePQI
    pqi,        \* what calculatePQI returned for them: <<>> before the call, <<index>> after
    imageData,  \* the caller's ImageData: [width, height, data], data a reference into heap
    heap,       \* the pixel buffers (Uint8ClampedArray contents) by reference
    ppm,        \* the caller's pixels-per-millimetre argument, in hundredths
    detected,   \* what detectDefects returned: <<>> before the call, <<list>> after
    results,    \* the records analyzeImage returned, one per call, oldest first
    clock,      \* what Date.now() returns, in milliseconds since the first call began
    args,       \* the arguments of the colour function under call (rgbToHsv, deltaE2000)
    returned,   \* what that function returned: <<>> before the call, <<returned>> after
    ui,         \* the React state of Index, ImageAnalyzer and CalibrationPanel
    uploads,    \* the processImage calls, oldest first: each call's file and position
    timers      \* the pending setTimeout callbacks, in the order they will fire

vars == <<scores, pqi, imageData, heap, ppm, detected, results, clock, args, returned,
          ui, uploads, timers>>

Abs(x) == IF x < 0 THEN -x ELSE x
Max2(a, b) == IF a >= b THEN a ELSE b
Min2(a, b) == IF a <= b THEN a ELSE b

\* Math.round(n / d) for d > 0: floor(n/d + 1/2), ties towards +infinity.
RoundDiv(n, d) == (2 * n + d) \div (2 * d)

RECURSIVE SumRange(_, _, _)
\* f[lo] + ... + f[hi], summed by halves
SumRange(f, lo, hi) ==
    IF lo > hi THEN 0
    ELSE IF lo = hi THEN f[lo]
    ELSE LET mid == (lo + hi) \div 2
         IN  SumRange(f, lo, mid) + SumRange(f, mid + 1, hi)

\* f[1] + ... + f[n]
SumTo(f, n) == SumRange(f, 1, n)

(***************************************************************************)
(* Phase 4: fuzzy logic PQI                                                *)
(***************************************************************************)

\* The unit of the composite index before rounding: 1/PQU.  Memberships
\* are multiples of 1/6, weights multiples of 1/100, hence contributions
\* are multiples of 1/600; PQU leaves two more digits for the powers.
PQU == 600 * 100

\* Memberships in units of 1/6 (1 - dist/1.5 = (6 - 4 dist)/6,
\* (dist - 2)/2 = 3 (dist - 2)/6).
fuzzyMembership(score) ==
    LET dist == Abs(score - 5)
    IN  [ ideal      |-> Max2(0, 6 - 4 * dist),
          acceptable |-> Max2(0, 6 - 4 * Abs(dist - 1)),
          warning    |-> Max2(0, 6 - 4 * Abs(dist - 2)),
          failure    |-> Max2(0, 3 * (dist - 2)) ]

\* weights = [0.30, 0.25, 0.25, 0.20] in hundredths.
weights == <<30, 25, 25, 20>>

\* Math.pow(p, 0.7) * 3 in units of 1/PQU, for the products p of two
\* deviations that exceed 1 (each in 2..4), rounded to the nearest unit.
Pow07Times3(p) ==
    CASE p = 4  -> 475023
      [] p = 6  -> 630926
      [] p = 8  -> 771677
      [] p = 9  -> 837997
      [] p = 12 -> 1024942
      [] p = 16 -> 1253593

\* Math.pow(p, 0.5) * 2 in units of 1/PQU, same products.
Pow05Times2(p) ==
    CASE p = 4  -> 240000
      [] p = 6  -> 293939
      [] p = 8  -> 339411
      [] p = 9  -> 360000
      [] p = 12 -> 415692
      [] p = 16 -> 480000

\* scores.some(s => s === 1 || s === 9)
SomeRejected(sc) == \E i \in 1..Len(sc) : sc[i] = 1 \/ sc[i] = 9
\* Mutant of SomeFailed: the failure rule forgets the over-target side (8).
SomeFailed_Only2(sc) == \E i \in 1..Len(sc) : sc[i] = 2

\* scores.some(s => s === 2 || s === 8)
SomeFailed(sc) == \E i \in 1..Len(sc) : sc[i] = 2 \/ sc[i] = 8


\* Mutant of FuzzyAggregate: the bonus for scores of exactly 5 is left out.
FuzzyAggregate_NoBonus(sc) ==
    LET colorS  == sc[1]
        hueS    == sc[2]
        mottleS == sc[3]
        defectS == sc[4]
        contribution(i) ==
            LET m == fuzzyMembership(sc[i])
            IN  m.ideal * 100 + m.acceptable * 85 + m.warning * 60 + m.failure * 25
        totalFuzzy == SumTo([i \in 1..Len(sc) |-> contribution(i) * weights[i] * 100],
                            Len(sc))
        hueDev == Abs(hueS - 5)
        motDev == Abs(mottleS - 5)
        interactionPenalty ==
            IF hueDev > 1 /\ motDev > 1 THEN Pow07Times3(hueDev * motDev) ELSE 0
        colorDefectPenalty ==
            IF Abs(colorS - 5) > 1 /\ Abs(defectS - 5) > 1
            THEN Pow05Times2(Abs(colorS - 5) * Abs(defectS - 5)) ELSE 0
        numFives == Cardinality({i \in 1..Len(sc) : sc[i] = 5})
        \* (numFives / (scores.length - 1)) * 10
        bonus == IF numFives > 0 THEN (numFives * 10 * PQU) \div (Len(sc) - 1) ELSE 0
    IN  totalFuzzy - interactionPenalty - colorDefectPenalty

\* The fuzzy aggregation of fuzzyPQI below its two hard rules, before the
\* final rounding and clamp, in units of 1/PQU.
FuzzyAggregate(sc) ==
    LET colorS  == sc[1]
        hueS    == sc[2]
        mottleS == sc[3]
        defectS == sc[4]
        contribution(i) ==
            LET m == fuzzyMembership(sc[i])
            IN  m.ideal * 100 + m.acceptable * 85 + m.warning * 60 + m.failure * 25
        totalFuzzy == SumTo([i \in 1..Len(sc) |-> contribution(i) * weights[i] * 100],
                            Len(sc))
        hueDev == Abs(hueS - 5)
        motDev == Abs(mottleS - 5)
        interactionPenalty ==
            IF hueDev > 1 /\ motDev > 1 THEN Pow07Times3(hueDev * motDev) ELSE 0
        colorDefectPenalty ==
            IF Abs(colorS - 5) > 1 /\ Abs(defectS - 5) > 1
            THEN Pow05Times2(Abs(colorS - 5) * Abs(defectS - 5)) ELSE 0
        numFives == Cardinality({i \in 1..Len(sc) : sc[i] = 5})
        \* (numFives / (scores.length - 1)) * 10
        bonus == IF numFives > 0 THEN (numFives * 10 * PQU) \div (Len(sc) - 1) ELSE 0
    IN  totalFuzzy - interactionPenalty - colorDefectPenalty + bonus

\* Mutant of ClampIndex: the upper clamp is missing.
ClampIndex_NoUpper(x) == Max2(0, RoundDiv(x, PQU))

\* Math.max(0, Math.min(100, Math.round(x))) for x in units of 1/PQU.
ClampIndex(x) == Max2(0, Min2(100, RoundDiv(x, PQU)))

\* Mutant of fuzzyPQI: the two hard rules are tested in the other order.
fuzzyPQI_FailureFirst(sc) ==
    IF SomeFailed(sc) THEN 25
    ELSE IF SomeRejected(sc) THEN 0
    ELSE ClampIndex(FuzzyAggregate(sc))

fuzzyPQI(sc) ==
    IF SomeRejected(sc) THEN 0
    ELSE IF SomeFailed(sc) THEN 25
    ELSE ClampIndex(FuzzyAggregate(sc))

\* Legacy shim.
calculatePQI(sc) == fuzzyPQI(sc)

(***************************************************************************)
(* Pixel buffers                                                           *)
(*                                                                         *)
(* A pixel is a record [r, g, b, a] of bytes.  A buffer holds the pixels   *)
(* of a width x height image in runs: the image is tiled by BLOCK x BLOCK  *)
(* squares (clipped at the right and bottom edge), the pixels of one       *)
(* square are equal, and the buffer is the row-major sequence of the       *)
(* squares' pixels.  Pixel (x, y) is the element BlockAt(x, y).  The       *)
(* code's loops over pixels are sums over squares, each term weighted by   *)
(* the number of the loop's pixels that lie in the square.                 *)
(*                                                                         *)
(* HSV saturation and value, and every mean, are fixed-point numbers in    *)
(* units of 1/ONE (division rounds down); hue is in whole degrees as in    *)
(* the code, mean hue in units of 1/ONE degree.                            *)
(***************************************************************************)
BLOCK == 10
ONE == 100 * 100

\* The literal n/d of the code in units of 1/ONE.
Frac(n, d) == (n * ONE) \div d

CeilDiv(n, d) == (n + d - 1) \div d

NBX(w) == CeilDiv(w, BLOCK)
NBY(h) == CeilDiv(h, BLOCK)
NBlocks(w, h) == NBX(w) * NBY(h)
BlockAt(x, y, w) == (y \div BLOCK) * NBX(w) + (x \div BLOCK) + 1

\* Length of the intersection of the intervals [a0, a1) and [b0, b1).
Overlap(a0, a1, b0, b1) == Max2(0, Min2(a1, b1) - Max2(a0, b0))

\* A rectangle of pixels: x0 <= x < x1, y0 <= y < y1.
Rect(x0, y0, x1, y1) == [x0 |-> x0, y0 |-> y0, x1 |-> x1, y1 |-> y1]

\* The number of pixels of square i that lie in rectangle rc.
PixelsIn(i, rc, w) ==
    LET bx == (i - 1) % NBX(w)
        by == (i - 1) \div NBX(w)
    IN  Overlap(bx * BLOCK, (bx + 1) * BLOCK, rc.x0, rc.x1)
          * Overlap(by * BLOCK, (by + 1) * BLOCK, rc.y0, rc.y1)

\* The squares that meet rectangle rc, each with the number of its pixels
\* that lie in rc.
SquaresIn(rc, w, h) ==
    IF rc.x1 <= rc.x0 \/ rc.y1 <= rc.y0 THEN <<>>
    ELSE LET bx0 == rc.x0 \div BLOCK
             by0 == rc.y0 \div BLOCK
             cols == (rc.x1 - 1) \div BLOCK - bx0 + 1
             rows == (rc.y1 - 1) \div BLOCK - by0 + 1
             square(j) == (by0 + ((j - 1) \div cols)) * NBX(w) + bx0 + ((j - 1) % cols) + 1
         IN  SubSeq([j \in 1..(cols * rows) |->
                       [i |-> square(j), pixels |-> PixelsIn(square(j), rc, w)]],
                    1, cols * rows)

\* The sum of f, f given per square, over the pixels of the squares sq.
SumOver(f, sq) == SumTo([j \in 1..Len(sq) |-> sq[j].pixels * f[sq[j].i]], Len(sq))

\* A loop "for x, y in rc" (or "for i < width * height") accumulating f,
\* f given per square: the sum over the pixels of rc of f.
PixelSum(f, rc, w, h) == SumOver(f, SquaresIn(rc, w, h))

WholeImage(w, h) == Rect(0, 0, w, h)

(***************************************************************************)
(* Colour space conversion                                                 *)
(***************************************************************************)
Max3(a, b, c) == Max2(a, Max2(b, c))
Min3(a, b, c) == Min2(a, Min2(b, c))

\* rgbToHsv without "if (h < 0) h += 360".
rgbToHsv_Unwrapped(r, g, b) ==
    LET max == Max3(r, g, b)
        min == Min3(r, g, b)
        delta == max - min
        h60 == IF max = r THEN 60 * (g - b)
               ELSE IF max = g THEN 60 * (b - r) + 120 * delta
               ELSE 60 * (r - g) + 240 * delta
    IN  IF delta > 0
        THEN [h |-> RoundDiv(h60, delta),
              s |-> (delta * ONE) \div max,
              v |-> (max * ONE) \div 255]
        ELSE [h |-> 0, s |-> 0, v |-> (max * ONE) \div 255]

\* rgbToHsv: h in degrees (Math.round, negative results wrapped by +360),
\* s = delta / max and v = max / 255 in units of 1/ONE.
rgbToHsv(r, g, b) ==
    LET max == Max3(r, g, b)
        min == Min3(r, g, b)
        delta == max - min
        \* h * 60 as a fraction over delta
        h60 == IF max = r THEN 60 * (g - b)
               ELSE IF max = g THEN 60 * (b - r) + 120 * delta
               ELSE 60 * (r - g) + 240 * delta
        hr == RoundDiv(h60, delta)
    IN  IF delta > 0
        THEN [h |-> IF hr < 0 THEN hr + 360 ELSE hr,
              s |-> (delta * ONE) \div max,
              v |-> (max * ONE) \div 255]
        ELSE [h |-> 0, s |-> 0, v |-> (max * ONE) \div 255]

HsvOf(px) == rgbToHsv(px.r, px.g, px.b)

\* rgbToHsv of every pixel of a buffer, computed once per pass.
HsvBuffer(buf) == SubSeq([i \in 1..Len(buf) |-> HsvOf(buf[i])], 1, Len(buf))

(***************************************************************************)
(* Phase 2: shadow detection                                               *)
(***************************************************************************)

\* isShadowPixel(hsv, meanV, meanS):
\*   (meanV - v) / max(0.01, meanV) > 0.35, s < meanS * 0.65, h outside [15, 55].
isShadowPixel(hsv, meanV, meanS) ==
    /\ (meanV - hsv.v) * 100 > 35 * Max2(Frac(1, 100), meanV)
    /\ hsv.s * 100 < meanS * 65
    /\ ~(hsv.h >= 15 /\ hsv.h <= 55)

\* The pre-pass of detectDefects and analyzeImage: the mean value and
\* saturation of the opaque pixels with s > 0.08 and v > 0.1 (0.6 and 0.4
\* when there are none).
GlobalMeans(buf, w, h) ==
    LET n == NBlocks(w, h)
        hsv == HsvBuffer(buf)
        counted(i) == buf[i].a >= 128 /\ hsv[i].s > Frac(8, 100) /\ hsv[i].v > Frac(1, 10)
        all == SquaresIn(WholeImage(w, h), w, h)
        gSumV == SumOver([i \in 1..n |-> IF counted(i) THEN hsv[i].v ELSE 0], all)
        gSumS == SumOver([i \in 1..n |-> IF counted(i) THEN hsv[i].s ELSE 0], all)
        gCount == SumOver([i \in 1..n |-> IF counted(i) THEN 1 ELSE 0], all)
    IN  [v |-> IF gCount > 0 THEN gSumV \div gCount ELSE Frac(6, 10),
         s |-> IF gCount > 0 THEN gSumS \div gCount ELSE Frac(4, 10)]

(***************************************************************************)
(* Phase 2: defect detection (shadow-aware)                                *)
(***************************************************************************)
CELL == 20

\* The rectangle of grid cell (gx, gy), clipped to the image.
CellRect(gx, gy, w, h) ==
    Rect(gx * CELL, gy * CELL, Min2((gx + 1) * CELL, w), Min2((gy + 1) * CELL, h))

\* The cell grid of detectDefects: the cell at (gx, gy).
GridCell(buf, hsv, w, h, gm, gx, gy) ==
    LET n == NBlocks(w, h)
        sq == SquaresIn(CellRect(gx, gy, w, h), w, h)
        fry(i) == buf[i].a >= 128 /\ hsv[i].s > Frac(8, 100) /\ hsv[i].v > Frac(8, 100)
        tH == SumOver([i \in 1..n |-> IF fry(i) THEN hsv[i].h ELSE 0], sq)
        tS == SumOver([i \in 1..n |-> IF fry(i) THEN hsv[i].s ELSE 0], sq)
        tV == SumOver([i \in 1..n |-> IF fry(i) THEN hsv[i].v ELSE 0], sq)
        cnt == SumOver([i \in 1..n |-> IF fry(i) THEN 1 ELSE 0], sq)
        shadowCount ==
            SumOver([i \in 1..n |->
                       IF fry(i) /\ isShadowPixel(hsv[i], gm.v, gm.s) THEN 1 ELSE 0], sq)
    IN  [h |-> IF cnt > 0 THEN (tH * ONE) \div cnt ELSE 0,
         s |-> IF cnt > 0 THEN tS \div cnt ELSE 0,
         v |-> IF cnt > 0 THEN tV \div cnt ELSE 0,
         isFry |-> cnt > 0,
         \* shadowRatio > 0.5
         isShadow |-> cnt > 0 /\ 2 * shadowCount > cnt,
         shadowRatio |-> IF cnt > 0 THEN (shadowCount * ONE) \div cnt ELSE 0]

\* The grid as a sequence, row by row: cell (gx, gy) at gy * gridW + gx + 1.
CellGrid(buf, w, h) ==
    LET gridW == CeilDiv(w, CELL)
        gridH == CeilDiv(h, CELL)
        gm == GlobalMeans(buf, w, h)
        hsv == HsvBuffer(buf)
    IN  SubSeq([k \in 1..(gridW * gridH) |->
                  GridCell(buf, hsv, w, h, gm, (k - 1) % gridW, (k - 1) \div gridW)],
               1, gridW * gridH)

\* The grid mean of hue and value over the fry cells that are not shadow
\* (30 degrees and 0.7 when there are none).
GridMeans(grid) ==
    LET n == Len(grid)
        valid(k) == grid[k].isFry /\ ~grid[k].isShadow
        sumH == SumTo([k \in 1..n |-> IF valid(k) THEN grid[k].h ELSE 0], n)
        sumV == SumTo([k \in 1..n |-> IF valid(k) THEN grid[k].v ELSE 0], n)
        validCnt == Cardinality({k \in 1..n : valid(k)})
    IN  [h |-> IF validCnt > 0 THEN sumH \div validCnt ELSE 30 * ONE,
         v |-> IF validCnt > 0 THEN sumV \div validCnt ELSE Frac(7, 10)]

\* positionWeight: 1.5 if min(gx/gridW, (gridW-gx)/gridW, gy/gridH,
\* (gridH-gy)/gridH) < 0.1, else 1.0.
PositionWeight(gx, gy, gridW, gridH) ==
    IF \/ 10 * gx < gridW
       \/ 10 * (gridW - gx) < gridW
       \/ 10 * gy < gridH
       \/ 10 * (gridH - gy) < gridH
    THEN Frac(3, 2) ELSE ONE

\* ppm > 0 ? area / (ppm * ppm) : area, in hundredths of a square millimetre
\* (ppm in hundredths).
AreaMm2(area, p) ==
    IF p > 0 THEN (area * 100 * 100 * 100) \div (p * p) ELSE area * 100

\* Mutant of ShadowRegion: the region is not flagged as an artifact.
ShadowRegion_NotArtifact(cell, gx, gy, w, h, p) ==
    LET x == gx * CELL
        y == gy * CELL
    IN  [x |-> x, y |-> y,
         width |-> Min2(CELL, w - x), height |-> Min2(CELL, h - y),
         type |-> "shadow", severity |-> cell.shadowRatio,
         area |-> CELL * CELL, areamm2 |-> AreaMm2(CELL * CELL, p),
         stripCoverage |-> 0, positionWeight |-> ONE, isArtifact |-> FALSE]

\* The region pushed for a majority-shadow cell.
ShadowRegion(cell, gx, gy, w, h, p) ==
    LET x == gx * CELL
        y == gy * CELL
    IN  [x |-> x, y |-> y,
         width |-> Min2(CELL, w - x), height |-> Min2(CELL, h - y),
         type |-> "shadow", severity |-> cell.shadowRatio,
         area |-> CELL * CELL, areamm2 |-> AreaMm2(CELL * CELL, p),
         stripCoverage |-> 0, positionWeight |-> ONE, isArtifact |-> TRUE]

\* Mutant of ClassifyCell: the dark rule is tried before the burnt rule.
ClassifyCell_DarkFirst(cell, means, positionWeight) ==
    LET vDiff == means.v - cell.v
        hDiff == Abs(means.h - cell.h)
    IN  IF vDiff > Frac(28, 100) /\ cell.s > Frac(18, 100)
        THEN [type |-> "dark", severity |-> vDiff]
        ELSE IF cell.v < Frac(22, 100) /\ cell.s < Frac(35, 100)
        THEN [type |-> "burnt", severity |-> ONE - cell.v]
        ELSE IF cell.v > Frac(87, 100) /\ cell.s < Frac(22, 100)
        THEN [type |-> IF positionWeight * 10 > 12 * ONE THEN "sugar_end" ELSE "light",
              severity |-> (cell.v - Frac(87, 100)) * 5]
        ELSE IF hDiff > 28 * ONE /\ vDiff > Frac(8, 100)
        THEN [type |-> "mottled", severity |-> hDiff \div 60]
        ELSE [type |-> "none", severity |-> 0]

\* The first matching rule for a fry cell that is not shadow: its kind and
\* severity, kind "none" when no rule matches.
ClassifyCell(cell, means, positionWeight) ==
    LET vDiff == means.v - cell.v
        hDiff == Abs(means.h - cell.h)
    IN  IF cell.v < Frac(22, 100) /\ cell.s < Frac(35, 100)
        THEN [type |-> "burnt", severity |-> ONE - cell.v]
        ELSE IF vDiff > Frac(28, 100) /\ cell.s > Frac(18, 100)
        THEN [type |-> "dark", severity |-> vDiff]
        ELSE IF cell.v > Frac(87, 100) /\ cell.s < Frac(22, 100)
        THEN [type |-> IF positionWeight * 10 > 12 * ONE THEN "sugar_end" ELSE "light",
              severity |-> (cell.v - Frac(87, 100)) * 5]
        ELSE IF hDiff > 28 * ONE /\ vDiff > Frac(8, 100)
        THEN [type |-> "mottled", severity |-> hDiff \div 60]
        ELSE [type |-> "none", severity |-> 0]

\* Mutant of DefectRegion: the rectangle is a whole cell, not clipped to
\* the image.
DefectRegion_Unclipped(cls, positionWeight, gx, gy, w, h, p) ==
    LET x == gx * CELL
        y == gy * CELL
    IN  [x |-> x, y |-> y, width |-> CELL, height |-> CELL, type |-> cls.type,
         severity |-> Min2(ONE, (cls.severity * positionWeight) \div ONE),
         area |-> CELL * CELL, areamm2 |-> AreaMm2(CELL * CELL, p),
         stripCoverage |-> 0, positionWeight |-> positionWeight, isArtifact |-> FALSE]

\* Mutant of DefectRegion: the weighted severity is stored without the clamp.
DefectRegion_Unclamped(cls, positionWeight, gx, gy, w, h, p) ==
    LET x == gx * CELL
        y == gy * CELL
        rw == Min2(CELL, w - x)
        rh == Min2(CELL, h - y)
    IN  [x |-> x, y |-> y, width |-> rw, height |-> rh, type |-> cls.type,
         severity |-> (cls.severity * positionWeight) \div ONE,
         area |-> rw * rh, areamm2 |-> AreaMm2(rw * rh, p),
         stripCoverage |-> 0, positionWeight |-> positionWeight, isArtifact |-> FALSE]

\* The region pushed for a classified cell.
DefectRegion(cls, positionWeight, gx, gy, w, h, p) ==
    LET x == gx * CELL
        y == gy * CELL
        rw == Min2(CELL, w - x)
        rh == Min2(CELL, h - y)
    IN  [x |-> x, y |-> y, width |-> rw, height |-> rh, type |-> cls.type,
         severity |-> Min2(ONE, (cls.severity * positionWeight) \div ONE),
         area |-> rw * rh, areamm2 |-> AreaMm2(rw * rh, p),
         stripCoverage |-> 0, positionWeight |-> positionWeight, isArtifact |-> FALSE]

\* Mutant of CellDefects: a majority-shadow cell is classified as well.
CellDefects_ShadowClassified(grid, means, k, w, h, p) ==
    LET gridW == CeilDiv(w, CELL)
        gridH == CeilDiv(h, CELL)
        gx == (k - 1) % gridW
        gy == (k - 1) \div gridW
        cell == grid[k]
        positionWeight == PositionWeight(gx, gy, gridW, gridH)
        cls == ClassifyCell(cell, means, positionWeight)
    IN  IF ~cell.isFry THEN <<>>
        ELSE (IF cell.isShadow THEN <<ShadowRegion(cell, gx, gy, w, h, p)>> ELSE <<>>)
               \o (IF cls.type # "none" /\ cls.severity > Frac(15, 100)
                   THEN <<DefectRegion(cls, positionWeight, gx, gy, w, h, p)>>
                   ELSE <<>>)

\* What the classification loop pushes for cell k of the grid: a sequence
\* of no or one region.
CellDefects(grid, means, k, w, h, p) ==
    LET gridW == CeilDiv(w, CELL)
        gridH == CeilDiv(h, CELL)
        gx == (k - 1) % gridW
        gy == (k - 1) \div gridW
        cell == grid[k]
        positionWeight == PositionWeight(gx, gy, gridW, gridH)
        cls == ClassifyCell(cell, means, positionWeight)
    IN  IF ~cell.isFry THEN <<>>
        ELSE IF cell.isShadow THEN <<ShadowRegion(cell, gx, gy, w, h, p)>>
        ELSE IF cls.type # "none" /\ cls.severity > Frac(15, 100)
        THEN <<DefectRegion(cls, positionWeight, gx, gy, w, h, p)>>
        ELSE <<>>

RECURSIVE ConcatRange(_, _, _)
\* f[lo] \o ... \o f[hi], joined by halves
ConcatRange(f, lo, hi) ==
    IF lo > hi THEN <<>>
    ELSE IF lo = hi THEN f[lo]
    ELSE LET mid == (lo + hi) \div 2
         IN  ConcatRange(f, lo, mid) \o ConcatRange(f, mid + 1, hi)

\* The list detectDefects hands to applyMottlingThirdRule: what the loop
\* pushed, cell by cell in grid order.
ClassifiedDefects(buf, w, h, p) ==
    LET grid == CellGrid(buf, w, h)
        means == GridMeans(grid)
    IN  ConcatRange([k \in 1..Len(grid) |-> CellDefects(grid, means, k, w, h, p)],
                    1, Len(grid))

RECURSIVE InsertByX(_, _)
\* d inserted into a list sorted by x, behind the elements with x <= d.x.
InsertByX(sorted, d) ==
    IF sorted = <<>> THEN <<d>>
    ELSE IF sorted[Len(sorted)].x <= d.x THEN Append(sorted, d)
    ELSE Append(InsertByX(SubSeq(sorted, 1, Len(sorted) - 1), d), sorted[Len(sorted)])

RECURSIVE SortByX(_)
\* [...defects].sort((a, b) => a.x - b.x): a stable sort.
SortByX(defects) ==
    IF defects = <<>> THEN <<>>
    ELSE InsertByX(SortByX(SubSeq(defects, 1, Len(defects) - 1)), defects[Len(defects)])

\* The key of stripGroups taken as Math.floor(d.y / 30).
StripKey_Floor(d) == d.y \div 30

\* The key of stripGroups: Math.round(d.y / 30).
StripKey(d) == RoundDiv(d.y, 30)

RECURSIVE KeysInOrder(_)
\* The keys of stripGroups in insertion order.
KeysInOrder(sorted) ==
    IF sorted = <<>> THEN <<>>
    ELSE LET before == KeysInOrder(SubSeq(sorted, 1, Len(sorted) - 1))
             key == StripKey(sorted[Len(sorted)])
         IN  IF \E j \in 1..Len(before) : before[j] = key THEN before
             ELSE Append(before, key)

\* d.type === 'mottled' && coverage < 0.333, coverage = defectWidth / imageWidth.
DroppedByThirdRule(d, defectWidth, imageWidth) ==
    d.type = "mottled" /\ 1000 * defectWidth < 333 * imageWidth

\* What the loop over one group appends to result.
StripResult(group, imageWidth) ==
    LET defectWidth == SumTo([j \in 1..Len(group) |-> group[j].width], Len(group))
        coverage == (defectWidth * ONE) \div imageWidth
        marked == [j \in 1..Len(group) |-> [group[j] EXCEPT !.stripCoverage = coverage]]
    IN  SelectSeq(marked, LAMBDA d : ~DroppedByThirdRule(d, defectWidth, imageWidth))

RECURSIVE StripResults(_, _, _, _)
\* result after the groups of keys[1..k].
StripResults(sorted, keys, k, imageWidth) ==
    IF k = 0 THEN <<>>
    ELSE StripResults(sorted, keys, k - 1, imageWidth)
         \o StripResult(SelectSeq(sorted, LAMBDA d : StripKey(d) = keys[k]), imageWidth)

applyMottlingThirdRule(defects, imageWidth) ==
    IF Len(defects) = 0 THEN <<>>
    ELSE LET sorted == SortByX(defects)
             keys == KeysInOrder(sorted)
         IN  StripResults(sorted, keys, Len(keys), imageWidth)

detectDefects(buf, w, h, p) ==
    applyMottlingThirdRule(ClassifiedDefects(buf, w, h, p), w)

(***************************************************************************)
(* Natural numbers beyond 32 bits, for the sums of products the code       *)
(* forms in doubles: a sequence of digits to the base LIMB, least          *)
(* significant first, <<>> for zero.                                       *)
(***************************************************************************)
LIMB == 1000

RECURSIVE BigOf(_)
BigOf(n) == IF n = 0 THEN <<>> ELSE <<n % LIMB>> \o BigOf(n \div LIMB)

RECURSIVE BigAddCarry(_, _, _)
BigAddCarry(a, b, carry) ==
    IF a = <<>> /\ b = <<>> THEN BigOf(carry)
    ELSE LET t == (IF a = <<>> THEN 0 ELSE a[1]) + (IF b = <<>> THEN 0 ELSE b[1]) + carry
         IN  <<t % LIMB>> \o BigAddCarry(IF a = <<>> THEN a ELSE Tail(a),
                                         IF b = <<>> THEN b ELSE Tail(b), t \div LIMB)

BigAdd(a, b) == BigAddCarry(a, b, 0)

RECURSIVE BigTimesCarry(_, _, _)
BigTimesCarry(a, k, carry) ==
    IF a = <<>> THEN BigOf(carry)
    ELSE LET t == a[1] * k + carry
         IN  <<t % LIMB>> \o BigTimesCarry(Tail(a), k, t \div LIMB)

\* a * k for a small k (LIMB * k fits the machine integer).
BigTimes(a, k) == IF k = 0 THEN <<>> ELSE BigTimesCarry(a, k, 0)

RECURSIVE BigLeq(_, _)
BigLeq(a, b) ==
    IF Len(a) # Len(b) THEN Len(a) < Len(b)
    ELSE IF a = <<>> THEN TRUE
    ELSE IF a[Len(a)] # b[Len(b)] THEN a[Len(a)] < b[Len(b)]
    ELSE BigLeq(SubSeq(a, 1, Len(a) - 1), SubSeq(b, 1, Len(b) - 1))

RECURSIVE BigSumRange(_, _, _)
BigSumRange(f, lo, hi) ==
    IF lo > hi THEN <<>>
    ELSE IF lo = hi THEN f[lo]
    ELSE LET mid == (lo + hi) \div 2
         IN  BigAdd(BigSumRange(f, lo, mid), BigSumRange(f, mid + 1, hi))

(***************************************************************************)
(* Typed arrays                                                            *)
(*                                                                         *)
(* An array is a reference into heap; heap[ref] is its content.            *)
(***************************************************************************)

\* Mutant of NewUint8ClampedArray: a view on the source's storage, as
\* new Uint8ClampedArray(source.buffer) would be.
NewUint8ClampedArray_View(h, source) == [heap |-> h, ref |-> source]

\* new Uint8ClampedArray(source), source a typed array: a new array with a
\* copy of the source's elements.
NewUint8ClampedArray(h, source) ==
    [heap |-> Append(h, h[source]), ref |-> Len(h) + 1]

(***************************************************************************)
(* Phase 1: spatial white balance                                          *)
(***************************************************************************)

\* A gain as the fraction n / d.
Gain(n, d) == [n |-> n, d |-> d]

UnitGains == <<Gain(1, 1), Gain(1, 1), Gain(1, 1)>>

\* The sums the patch loop accumulates for patch (px, py) of the 5 x 5
\* sampling grid.
WbPatch(buf, w, h, px, py) ==
    LET n == NBlocks(w, h)
        patchW == Max2(1, w \div 5)
        patchH == Max2(1, h \div 5)
        startX == px * patchW
        startY == py * patchH
        sq == SquaresIn(Rect(startX, startY, Min2(startX + patchW, w),
                                  Min2(startY + patchH, h)), w, h)
    IN  [sumR |-> SumOver([i \in 1..n |-> buf[i].r], sq),
         sumG |-> SumOver([i \in 1..n |-> buf[i].g], sq),
         sumB |-> SumOver([i \in 1..n |-> buf[i].b], sq),
         cnt  |-> SumOver([i \in 1..n |-> 1], sq)]

\* lum = 0.299 mr + 0.587 mg + 0.114 mb of a patch, times 1000 cnt.
WbLum(p) == 299 * p.sumR + 587 * p.sumG + 114 * p.sumB

\* maxDiff < 40: the channel means of the patch are within 40 of each other.
WbNeutral(p) ==
    Max3(Abs(p.sumR - p.sumG), Abs(p.sumG - p.sumB), Abs(p.sumR - p.sumB)) < 40 * p.cnt

\* lum of patch p is greater than lum of patch q.
WbBrighter(p, q) ==
    ~BigLeq(BigTimes(BigOf(WbLum(p)), q.cnt), BigTimes(BigOf(WbLum(q)), p.cnt))

RECURSIVE WbReference(_, _)
\* The patch that set bestV and ref in the first k passes of the patch
\* loop (patch (px, py) is element 5 py + px + 1); 0 when none did.
WbReference(patches, k) ==
    IF k = 0 THEN 0
    ELSE LET before == WbReference(patches, k - 1)
             p == patches[k]
         IN  IF /\ p.cnt > 0
                /\ WbNeutral(p)
                /\ IF before = 0 THEN WbLum(p) > 0 ELSE WbBrighter(p, patches[before])
             THEN k
             ELSE before

\* estimateWhiteBalance without the test bestV < 30.
estimateWhiteBalance_Untested(buf, w, h) ==
    LET patches == SubSeq([k \in 1..25 |-> WbPatch(buf, w, h, (k - 1) % 5, (k - 1) \div 5)],
                          1, 25)
        best == WbReference(patches, 25)
    IN  IF best = 0 THEN UnitGains
        ELSE LET ref == patches[best]
                 target3 == ref.sumR + ref.sumG + ref.sumB
             IN  <<Gain(target3, 3 * Max2(ref.cnt, ref.sumR)),
                   Gain(target3, 3 * Max2(ref.cnt, ref.sumG)),
                   Gain(target3, 3 * Max2(ref.cnt, ref.sumB))>>

\* estimateWhiteBalance: the gains target / max(1, ref) for the brightest
\* near-neutral patch, unit gains when its lum is below 30 or there is
\* none.
estimateWhiteBalance(buf, w, h) ==
    LET patches == SubSeq([k \in 1..25 |-> WbPatch(buf, w, h, (k - 1) % 5, (k - 1) \div 5)],
                          1, 25)
        best == WbReference(patches, 25)
    IN  IF best = 0 THEN UnitGains
        ELSE LET ref == patches[best]
                 \* target = (refR + refG + refB) / 3, times 3 cnt
                 target3 == ref.sumR + ref.sumG + ref.sumB
             IN  IF WbLum(ref) < 30 * 1000 * ref.cnt THEN UnitGains
                 ELSE <<Gain(target3, 3 * Max2(ref.cnt, ref.sumR)),
                        Gain(target3, 3 * Max2(ref.cnt, ref.sumG)),
                        Gain(target3, 3 * Max2(ref.cnt, ref.sumB))>>

\* Math.min(255, Math.round(value * gain)).
Balanced(value, gain) == Min2(255, RoundDiv(value * gain.n, gain.d))

\* applyWhiteBalance(data, gains): the gains applied in place to the array
\* at ref; alpha is left alone.
applyWhiteBalance(h, ref, gains) ==
    [h EXCEPT ![ref] =
        [i \in DOMAIN @ |->
            [r |-> Balanced(@[i].r, gains[1]),
             g |-> Balanced(@[i].g, gains[2]),
             b |-> Balanced(@[i].b, gains[3]),
             a |-> @[i].a]]]

(***************************************************************************)
(* Phase 3: crust score                                                    *)
(*                                                                         *)
(* Luminance is in thousandths; the two energies are sums of squares of    *)
(* luminance sums, kept as natural numbers in limbs.                       *)
(***************************************************************************)
\* lum = 0.299 r + 0.587 g + 0.114 b, in thousandths.
LumOf(px) == 299 * px.r + 587 * px.g + 114 * px.b

PATCH == 8

\* One row of a patch: the PATCH pixels from x0 in a row of squares by.
\* sum is the sum of their lum, squares the sum of the squares of their lum.
PatchRow(buf, w, x0, by) ==
    LET bx0 == x0 \div BLOCK
        cols == (x0 + PATCH - 1) \div BLOCK - bx0 + 1
        count(j) == Overlap((bx0 + j - 1) * BLOCK, (bx0 + j) * BLOCK, x0, x0 + PATCH)
        lum(j) == LumOf(buf[by * NBX(w) + bx0 + j])
    IN  [sum |-> SumTo([j \in 1..cols |-> count(j) * lum(j)], cols),
         squares |-> BigSumRange([j \in 1..cols |->
                                    BigTimes(BigTimes(BigOf(lum(j)), lum(j)), count(j))],
                                 1, cols)]

\* What one patch adds to the energies, times PATCH^3 and in millionths:
\*   low:   lf / PATCH            = sum over rows of mean^2 / PATCH
\*   total: lf / PATCH + hf / (PATCH * PATCH), where a row adds to hf
\*          sum (v - mean)^2 = (sum of squares) - PATCH mean^2.
PatchEnergy(buf, w, px, py) ==
    LET by0 == (py * PATCH) \div BLOCK
        rows == ((py + 1) * PATCH - 1) \div BLOCK - by0 + 1
        \* the rows of the patch that lie in row of squares by0 + j - 1
        count(j) == Overlap((by0 + j - 1) * BLOCK, (by0 + j) * BLOCK,
                            py * PATCH, (py + 1) * PATCH)
        row == SubSeq([j \in 1..rows |-> PatchRow(buf, w, px * PATCH, by0 + j - 1)], 1, rows)
    IN  [low |-> BigSumRange([j \in 1..rows |->
                     BigTimes(BigTimes(BigOf(row[j].sum), row[j].sum), count(j))],
                     1, rows),
         total |-> BigSumRange([j \in 1..rows |->
                     BigTimes(row[j].squares, PATCH * count(j))], 1, rows)]

RECURSIVE RoundedRatio200(_, _, _, _, _)
\* Math.round(ratio * 200) for ratio = (total - low) / (total + tiny), known
\* to lie in lo..hi: the largest k with k <= 200 ratio + 1/2.
RoundedRatio200(low, total, tiny, lo, hi) ==
    IF lo = hi THEN lo
    ELSE LET k == (lo + hi + 1) \div 2
         IN  IF BigLeq(BigAdd(BigTimes(BigAdd(total, BigOf(tiny)), 2 * k),
                              BigTimes(low, 400)),
                       BigAdd(BigTimes(total, 401), BigOf(tiny)))
             THEN RoundedRatio200(low, total, tiny, k, hi)
             ELSE RoundedRatio200(low, total, tiny, lo, k - 1)

\* computeCrunchScore: min(100, round(200 hf / (lf + hf + 1e-6))), 1e-6
\* being PATCH^3 in the unit of low and total.
computeCrunchScore(buf, w, h) ==
    LET numPatchesX == w \div PATCH
        numPatchesY == h \div PATCH
        n == numPatchesX * numPatchesY
        energy == SubSeq([k \in 1..n |->
                            PatchEnergy(buf, w, (k - 1) % numPatchesX, (k - 1) \div numPatchesX)],
                         1, n)
        low == BigSumRange([k \in 1..n |-> energy[k].low], 1, n)
        total == BigSumRange([k \in 1..n |-> energy[k].total], 1, n)
    IN  IF numPatchesX = 0 \/ numPatchesY = 0 THEN 50
        ELSE Min2(100, RoundedRatio200(low, total, PATCH * PATCH * PATCH, 0, 200))

(***************************************************************************)
(* Agtron, USDA and the attribute scores                                   *)
(*                                                                         *)
(* Channel means are in hundredths of a level; scores on the USDA scale    *)
(* and ratios are in units of 1/ONE.                                       *)
(***************************************************************************)

\* estimateAgtron: round(20 + (luminance / 255) * 80).
estimateAgtron(meanR, meanG, meanB) ==
    LET \* luminance in units of 1/100000
        luminance == 299 * meanR + 587 * meanG + 114 * meanB
    IN  20 + RoundDiv(16 * luminance, 51 * 100000)

\* getUsdaScore without its first line, the target band 58..68.
getUsdaScore_NoTargetBand(agtron) ==
    IF agtron < 40 THEN 0
    ELSE IF agtron < 50 THEN Frac(2, 10)
    ELSE IF agtron < 58 THEN Frac(4, 10)
    ELSE IF agtron < 70 THEN Frac(6, 10)
    ELSE IF agtron < 80 THEN Frac(8, 10)
    ELSE ONE

getUsdaScore(agtron) ==
    IF agtron >= 58 /\ agtron <= 68 THEN Frac(5, 10)
    ELSE IF agtron < 40 THEN 0
    ELSE IF agtron < 50 THEN Frac(2, 10)
    ELSE IF agtron < 58 THEN Frac(4, 10)
    ELSE IF agtron < 70 THEN Frac(6, 10)
    ELSE IF agtron < 80 THEN Frac(8, 10)
    ELSE ONE

\* Mutant of getProcessColorScore: the darker side is scored 6..9 and the
\* lighter side 4..1.
getProcessColorScore_Mirrored(usdaScore) ==
    LET deviation == Abs(usdaScore - Frac(5, 10))
    IN  IF deviation < Frac(5, 100) THEN 5
        ELSE IF usdaScore > Frac(5, 10)
        THEN IF deviation < Frac(15, 100) THEN 4
             ELSE IF deviation < Frac(25, 100) THEN 3
             ELSE IF deviation < Frac(35, 100) THEN 2
             ELSE 1
        ELSE IF deviation < Frac(15, 100) THEN 6
             ELSE IF deviation < Frac(25, 100) THEN 7
             ELSE IF deviation < Frac(35, 100) THEN 8
             ELSE 9

getProcessColorScore(usdaScore) ==
    LET deviation == Abs(usdaScore - Frac(5, 10))
    IN  IF deviation < Frac(5, 100) THEN 5
        ELSE IF usdaScore < Frac(5, 10)
        THEN IF deviation < Frac(15, 100) THEN 4
             ELSE IF deviation < Frac(25, 100) THEN 3
             ELSE IF deviation < Frac(35, 100) THEN 2
             ELSE 1
        ELSE IF deviation < Frac(15, 100) THEN 6
             ELSE IF deviation < Frac(25, 100) THEN 7
             ELSE IF deviation < Frac(35, 100) THEN 8
             ELSE 9

\* getHueScore: meanH in units of 1/ONE degree, meanS in units of 1/ONE.
getHueScore(meanH, meanS) ==
    IF meanH >= 25 * ONE /\ meanH <= 40 * ONE /\ meanS > Frac(3, 10) /\ meanS < Frac(6, 10) THEN 5
    ELSE IF meanH > 40 * ONE /\ meanH <= 55 * ONE THEN 6
    ELSE IF meanH > 55 * ONE /\ meanH <= 70 * ONE THEN 7
    ELSE IF meanH > 70 * ONE \/ meanS > Frac(7, 10) THEN 8
    ELSE IF meanH < 20 * ONE \/ meanH > 80 * ONE THEN 9
    ELSE IF meanH >= 20 * ONE /\ meanH < 25 * ONE THEN 4
    ELSE 5

getUsdaLabel(score) ==
    IF score <= Frac(1, 10) THEN "Very Dark (>1.5 USDA)"
    ELSE IF score <= Frac(3, 10) THEN "Dark (1.0-1.5 USDA)"
    ELSE IF score <= Frac(45, 100) THEN "Slightly Dark (0.5-1.0 USDA)"
    ELSE IF score <= Frac(55, 100) THEN "Target (0.5 USDA)"
    ELSE IF score <= Frac(7, 10) THEN "Slightly Light (0.5-1.0 USDA)"
    ELSE IF score <= Frac(9, 10) THEN "Light (1.0-1.5 USDA)"
    ELSE "Very Light (>1.5 USDA)"

(***************************************************************************)
(* Delta E 2000 against the target colour                                  *)
(*                                                                         *)
(* rgbToLab and deltaE2000 are built from powers, roots and trigonometric  *)
(* functions; the model keeps the application as a term over the three     *)
(* channel means it is applied to, and computeMaillardRisk as terms over   *)
(* that.                                                                   *)
(***************************************************************************)
DeltaEToGold(meanR, meanG, meanB) ==
    [fn |-> "deltaE2000(rgbToLab(.), MC_GOLD_LAB)", of |-> <<meanR, meanG, meanB>>]

computeMaillardRisk(deltaE) ==
    [risk |-> [fn |-> "risk", of |-> deltaE.of],
     index |-> [fn |-> "index", of |-> deltaE.of]]

(***************************************************************************)
(* deltaE2000 in fixed point                                               *)
(*                                                                         *)
(* L, a, b, chroma and the distance are in hundredths, angles in           *)
(* hundredths of a degree, ratios in 1/ONE.  Division truncates towards    *)
(* zero and the sine is odd, as the division and Math.sin of doubles are;  *)
(* the square root is the integer square root, the sine is interpolated    *)
(* over whole degrees, the arc tangent inverts it, and the exponential is  *)
(* its series.  The intermediate values fit the integers for chroma up to  *)
(* 60.                                                                     *)
(***************************************************************************)
\* x / y of doubles: (-x) / y = -(x / y).
Quot(n, d) == IF n < 0 THEN -((-n) \div d) ELSE n \div d

RECURSIVE SqrtBetween(_, _, _)
\* The largest r in lo..hi with r * r <= n.
SqrtBetween(n, lo, hi) ==
    IF lo >= hi THEN lo
    ELSE LET mid == (lo + hi + 1) \div 2
         IN  IF mid * mid <= n THEN SqrtBetween(n, mid, hi)
             ELSE SqrtBetween(n, lo, mid - 1)

\* Math.sqrt
Sqrt(n) == SqrtBetween(n, 0, Min2(n, 46340))

\* sin of 0, 1, ..., 90 degrees in 1/ONE.
SineTable ==
    <<
           0, 175, 349, 523, 698, 872, 1045, 1219, 1392, 1564,
           1736, 1908, 2079, 2250, 2419, 2588, 2756, 2924, 3090, 3256,
           3420, 3584, 3746, 3907, 4067, 4226, 4384, 4540, 4695, 4848,
           5000, 5150, 5299, 5446, 5592, 5736, 5878, 6018, 6157, 6293,
           6428, 6561, 6691, 6820, 6947, 7071, 7193, 7314, 7431, 7547,
           7660, 7771, 7880, 7986, 8090, 8192, 8290, 8387, 8480, 8572,
           8660, 8746, 8829, 8910, 8988, 9063, 9135, 9205, 9272, 9336,
           9397, 9455, 9511, 9563, 9613, 9659, 9703, 9744, 9781, 9816,
           9848, 9877, 9903, 9925, 9945, 9962, 9976, 9986, 9994, 9998,
           10000 >>

\* Math.sin of an angle of 0 to 90 degrees.
SinAcute(x) ==
    LET d == x \div 100
    IN  IF d >= 90 THEN ONE
        ELSE SineTable[d + 1] + ((SineTable[d + 2] - SineTable[d + 1]) * (x % 100)) \div 100

\* Math.sin(rad(x))
Sin(x) ==
    LET m == x % 36000
    IN  IF m <= 9000 THEN SinAcute(m)
        ELSE IF m <= 18000 THEN SinAcute(18000 - m)
        ELSE IF m <= 27000 THEN -SinAcute(m - 18000)
        ELSE -SinAcute(36000 - m)

\* Math.cos(rad(x))
Cos(x) == Sin(x + 9000)

RECURSIVE AtanBetween(_, _, _, _)
\* For x, y >= 0, not both 0: the largest angle t in lo..hi with
\* x * sin t <= y * cos t.
AtanBetween(y, x, lo, hi) ==
    IF lo >= hi THEN lo
    ELSE LET mid == (lo + hi + 1) \div 2
         IN  IF x * Sin(mid) <= y * Cos(mid) THEN AtanBetween(y, x, mid, hi)
             ELSE AtanBetween(y, x, lo, mid - 1)

\* Math.atan2(y, x) * (180 / Math.PI)
Atan2(y, x) ==
    IF x = 0 /\ y = 0 THEN 0
    ELSE IF x >= 0 /\ y >= 0 THEN AtanBetween(y, x, 0, 9000)
    ELSE IF x < 0 /\ y >= 0 THEN 18000 - AtanBetween(y, -x, 0, 9000)
    ELSE IF x < 0 THEN AtanBetween(-y, -x, 0, 9000) - 18000
    ELSE -AtanBetween(-y, x, 0, 9000)

RECURSIVE PowerOf(_, _)
\* Math.pow(r, n) for r in thousandths.
PowerOf(r, n) == IF n = 0 THEN 1000 ELSE (PowerOf(r, n - 1) * r) \div 1000

\* c^7 / (c^7 + 25^7) in 1/ONE, for c in hundredths.
Pow7Fraction(c) ==
    LET r7 == PowerOf((c * 2) \div 5, 7)
    IN  ONE - (1000 * ONE) \div (r7 + 1000)

RECURSIVE ExpSeries(_, _)
\* The series of exp(-f) from its n-th term on, for f in thousandths below 1.
ExpSeries(f, n) ==
    IF n > 8 THEN ONE ELSE ONE - (f * ExpSeries(f, n + 1)) \div (1000 * n)

RECURSIVE ExpNegWhole(_)
\* exp(-k) for a natural k.
ExpNegWhole(k) == IF k = 0 THEN ONE ELSE (ExpNegWhole(k - 1) * 3679) \div ONE

\* Math.exp(-y) in 1/ONE, for y >= 0 in thousandths.
ExpNeg(y) ==
    IF y >= 12 * 1000 THEN 0
    ELSE (ExpNegWhole(y \div 1000) * ExpSeries(y % 1000, 1)) \div ONE

MC_GOLD_LAB == [L |-> 7200, a |-> 850, b |-> 4200]

\* Mutant of deltaE2000: the second colour's a is not scaled by 1 + G.
deltaE2000_SecondUnscaled(lab1, lab2) ==
    LET C1 == Sqrt(lab1.a * lab1.a + lab1.b * lab1.b)
        C2 == Sqrt(lab2.a * lab2.a + lab2.b * lab2.b)
        Cbar == (C1 + C2) \div 2
        G == (ONE - Sqrt(Pow7Fraction(Cbar) * ONE)) \div 2
        a1p == Quot(lab1.a * (ONE + G), ONE)
        a2p == lab2.a
        C1p == Sqrt(a1p * a1p + lab1.b * lab1.b)
        C2p == Sqrt(a2p * a2p + lab2.b * lab2.b)
        h1 == Atan2(lab1.b, a1p)
        h2 == Atan2(lab2.b, a2p)
        h1p == IF h1 < 0 THEN h1 + 36000 ELSE h1
        h2p == IF h2 < 0 THEN h2 + 36000 ELSE h2
        dLp == lab2.L - lab1.L
        dCp == C2p - C1p
        dh == h2p - h1p
        dhp == IF C1p * C2p = 0 THEN 0
               ELSE IF dh > 18000 THEN dh - 36000
               ELSE IF dh < -18000 THEN dh + 36000
               ELSE dh
        dHp == Quot(2 * Sqrt(C1p * C2p) * Sin(Quot(dhp, 2)), ONE)
        Lbarp == (lab1.L + lab2.L) \div 2
        Cbarp == (C1p + C2p) \div 2
        hbarp == IF C1p * C2p = 0 THEN h1p + h2p
                 ELSE IF Abs(h1p - h2p) > 18000 THEN (h1p + h2p + 36000) \div 2
                 ELSE (h1p + h2p) \div 2
        T == ONE - Quot(17 * Cos(hbarp - 3000), 100)
                 + Quot(24 * Cos(2 * hbarp), 100)
                 + Quot(32 * Cos(3 * hbarp + 600), 100)
                 - Quot(20 * Cos(4 * hbarp - 6300), 100)
        dL2 == (Lbarp - 5000) * (Lbarp - 5000)
        SL == ONE + (15 * (dL2 \div Sqrt(20 * ONE + dL2))) \div 10
        SC == ONE + (45 * Cbarp) \div 10
        SH == ONE + (((15 * Cbarp) \div 10) * T) \div ONE
        RC == 2 * Sqrt(Pow7Fraction(Cbarp) * ONE)
        z == Quot((hbarp - 27500) * 2, 5)
        dTheta == (3000 * ExpNeg((z * z) \div 1000)) \div ONE
        RT == -((Sin(2 * dTheta) * RC) \div ONE)
        tL == Quot(dLp * ONE, SL)
        tC == Quot(dCp * ONE, SC)
        tH == Quot(dHp * ONE, SH)
    IN  Sqrt(tL * tL + tC * tC + tH * tH + Quot(RT * tC, ONE) * tH)

deltaE2000(lab1, lab2) ==
    LET C1 == Sqrt(lab1.a * lab1.a + lab1.b * lab1.b)
        C2 == Sqrt(lab2.a * lab2.a + lab2.b * lab2.b)
        Cbar == (C1 + C2) \div 2
        G == (ONE - Sqrt(Pow7Fraction(Cbar) * ONE)) \div 2
        a1p == Quot(lab1.a * (ONE + G), ONE)
        a2p == Quot(lab2.a * (ONE + G), ONE)
        C1p == Sqrt(a1p * a1p + lab1.b * lab1.b)
        C2p == Sqrt(a2p * a2p + lab2.b * lab2.b)
        h1 == Atan2(lab1.b, a1p)
        h2 == Atan2(lab2.b, a2p)
        h1p == IF h1 < 0 THEN h1 + 36000 ELSE h1
        h2p == IF h2 < 0 THEN h2 + 36000 ELSE h2
        dLp == lab2.L - lab1.L
        dCp == C2p - C1p
        dh == h2p - h1p
        dhp == IF C1p * C2p = 0 THEN 0
               ELSE IF dh > 18000 THEN dh - 36000
               ELSE IF dh < -18000 THEN dh + 36000
               ELSE dh
        dHp == Quot(2 * Sqrt(C1p * C2p) * Sin(Quot(dhp, 2)), ONE)
        Lbarp == (lab1.L + lab2.L) \div 2
        Cbarp == (C1p + C2p) \div 2
        hbarp == IF C1p * C2p = 0 THEN h1p + h2p
                 ELSE IF Abs(h1p - h2p) > 18000 THEN (h1p + h2p + 36000) \div 2
                 ELSE (h1p + h2p) \div 2
        T == ONE - Quot(17 * Cos(hbarp - 3000), 100)
                 + Quot(24 * Cos(2 * hbarp), 100)
                 + Quot(32 * Cos(3 * hbarp + 600), 100)
                 - Quot(20 * Cos(4 * hbarp - 6300), 100)
        dL2 == (Lbarp - 5000) * (Lbarp - 5000)
        SL == ONE + (15 * (dL2 \div Sqrt(20 * ONE + dL2))) \div 10
        SC == ONE + (45 * Cbarp) \div 10
        SH == ONE + (((15 * Cbarp) \div 10) * T) \div ONE
        RC == 2 * Sqrt(Pow7Fraction(Cbarp) * ONE)
        z == Quot((hbarp - 27500) * 2, 5)
        dTheta == (3000 * ExpNeg((z * z) \div 1000)) \div ONE
        RT == -((Sin(2 * dTheta) * RC) \div ONE)
        tL == Quot(dLp * ONE, SL)
        tC == Quot(dCp * ONE, SC)
        tH == Quot(dHp * ONE, SH)
    IN  Sqrt(tL * tL + tC * tC + tH * tH + Quot(RT * tC, ONE) * tH)

(***************************************************************************)
(* Hue histogram, heatmap and explainability map                           *)
(***************************************************************************)

\* generateHueHistogram: 36 bins of 10 degrees over the opaque pixels with
\* s > 0.1 and v > 0.15, each bin in percent of their number (hundredths
\* of a percent); bin k of the code is element k + 1.
generateHueHistogram(buf, w, h) ==
    LET n == NBlocks(w, h)
        hsv == HsvBuffer(buf)
        all == WholeImage(w, h)
        counted(i) == buf[i].a >= 128 /\ hsv[i].s > Frac(1, 10) /\ hsv[i].v > Frac(15, 100)
        bin(i) == Min2(35, hsv[i].h \div 10)
        \* the number of counted pixels per square, and their bin
        pixels == SubSeq([i \in 1..n |-> IF counted(i) THEN PixelsIn(i, all, w) ELSE 0], 1, n)
        binOf == SubSeq([i \in 1..n |-> bin(i)], 1, n)
        total == SumTo(pixels, n)
        bins == [k \in 1..36 |->
                    SumTo([i \in 1..n |-> IF binOf[i] = k - 1 THEN pixels[i] ELSE 0], n)]
    IN  [k \in 1..36 |-> IF total > 0 THEN (bins[k] * 100 * 100) \div total ELSE bins[k]]

\* generateHeatmap with the default gridSize: per cell the mean of 1 - v
\* over its opaque pixels that are not shadow and have s > 0.05 or v < 0.5;
\* row gy of the code is element gy + 1, column gx element gx + 1.
generateHeatmap(buf, w, h) ==
    LET n == NBlocks(w, h)
        gW == CeilDiv(w, CELL)
        gH == CeilDiv(h, CELL)
        hsv == HsvBuffer(buf)
        gm == GlobalMeans(buf, w, h)
        counted == SubSeq([i \in 1..n |->
                              /\ buf[i].a >= 128
                              /\ ~isShadowPixel(hsv[i], gm.v, gm.s)
                              /\ (hsv[i].s > Frac(5, 100) \/ hsv[i].v < Frac(5, 10))],
                          1, n)
    IN  [gy \in 1..gH |->
            [gx \in 1..gW |->
                LET sq == SquaresIn(CellRect(gx - 1, gy - 1, w, h), w, h)
                    sumBurn == SumOver([i \in 1..n |-> IF counted[i] THEN ONE - hsv[i].v ELSE 0], sq)
                    cnt == SumOver([i \in 1..n |-> IF counted[i] THEN 1 ELSE 0], sq)
                IN  IF cnt > 0 THEN sumBurn \div cnt ELSE 0]]

\* max(0, 1 - sqrt(dx * dx + dy * dy) / (radius + 1)) for radius 2 and
\* dx, dy in -2..2, in units of 1/ONE.
CamWeight(dx, dy) ==
    CASE dx * dx + dy * dy = 0 -> ONE
      [] dx * dx + dy * dy = 1 -> 6666
      [] dx * dx + dy * dy = 2 -> 5285
      [] dx * dx + dy * dy = 4 -> 3333
      [] dx * dx + dy * dy = 5 -> 2546
      [] dx * dx + dy * dy = 8 -> 571

\* Mutant of CamAfter: the sum is stored without the cap at 1.
CamAfter_Uncapped(cam, d, gW, gH) ==
    IF d.isArtifact THEN cam
    ELSE LET gx == d.x \div CELL
             gy == d.y \div CELL
         IN  [ny \in 1..gH |->
                [nx \in 1..gW |->
                    LET dx == (nx - 1) - gx
                        dy == (ny - 1) - gy
                    IN  IF Abs(dx) <= 2 /\ Abs(dy) <= 2
                        THEN cam[ny][nx]
                               + (((d.severity * CamWeight(dx, dy)) \div ONE)
                                    * d.positionWeight) \div ONE
                        ELSE cam[ny][nx]]]

\* The body of generateGradCam's loop for defect d.
CamAfter(cam, d, gW, gH) ==
    IF d.isArtifact THEN cam
    ELSE LET gx == d.x \div CELL
             gy == d.y \div CELL
         IN  [ny \in 1..gH |->
                [nx \in 1..gW |->
                    LET dx == (nx - 1) - gx
                        dy == (ny - 1) - gy
                    IN  IF Abs(dx) <= 2 /\ Abs(dy) <= 2
                        THEN Min2(ONE, cam[ny][nx]
                                  + (((d.severity * CamWeight(dx, dy)) \div ONE)
                                       * d.positionWeight) \div ONE)
                        ELSE cam[ny][nx]]]

RECURSIVE CamAfterAll(_, _, _, _)
\* cam after the loop has run over defects[1..k].
CamAfterAll(defects, k, gW, gH) ==
    IF k = 0 THEN [ny \in 1..gH |-> [nx \in 1..gW |-> 0]]
    ELSE CamAfter(CamAfterAll(defects, k - 1, gW, gH), defects[k], gW, gH)

\* generateGradCam with the default gridSize.
generateGradCam(w, h, defects) ==
    CamAfterAll(defects, Len(defects), CeilDiv(w, CELL), CeilDiv(h, CELL))

(***************************************************************************)
(* analyzeImage                                                            *)
(***************************************************************************)

\* The pixel loop over the white-balanced data, given the HSV values of the
\* pixels and the global means gm of the shadow pre-pass: the sums and
\* counts the loop accumulates.
PixelLoop(buf, hsv, gm, w, h) ==
    LET n == NBlocks(w, h)
        all == SquaresIn(WholeImage(w, h), w, h)
        \* neither transparent nor near-white background
        seen(i) == buf[i].a >= 128 /\ ~(hsv[i].s < Frac(5, 100) /\ hsv[i].v > Frac(92, 100))
        shadow == SubSeq([i \in 1..n |-> seen(i) /\ isShadowPixel(hsv[i], gm.v, gm.s)], 1, n)
        valid == SubSeq([i \in 1..n |-> seen(i) /\ ~shadow[i]], 1, n)
        burned(i) == hsv[i].v < Frac(2, 10) /\ hsv[i].s < Frac(3, 10)
        dark(i) == ~burned(i) /\ hsv[i].v < Frac(35, 100)
        light(i) == ~burned(i) /\ ~dark(i) /\ hsv[i].v > Frac(85, 100) /\ hsv[i].s < Frac(2, 10)
        hued(i) == valid[i] /\ hsv[i].s > Frac(1, 10)
        Sum(g(_)) == SumOver([i \in 1..n |-> g(i)], all)
        r(i) == IF valid[i] THEN buf[i].r ELSE 0
        g(i) == IF valid[i] THEN buf[i].g ELSE 0
        b(i) == IF valid[i] THEN buf[i].b ELSE 0
        hh(i) == IF valid[i] THEN hsv[i].h ELSE 0
        ss(i) == IF valid[i] THEN hsv[i].s ELSE 0
        vv(i) == IF valid[i] THEN hsv[i].v ELSE 0
        one(i) == IF valid[i] THEN 1 ELSE 0
        sh(i) == IF shadow[i] THEN 1 ELSE 0
        bu(i) == IF valid[i] /\ burned(i) THEN 1 ELSE 0
        da(i) == IF valid[i] /\ dark(i) THEN 1 ELSE 0
        li(i) == IF valid[i] /\ light(i) THEN 1 ELSE 0
        hu(i) == IF hued(i) THEN 1 ELSE 0
        hueCount == Sum(hu)
        \* the number of elements of hueValues that are <= m
        upTo(m) == SumOver([i \in 1..n |-> IF hued(i) /\ hsv[i].h <= m THEN 1 ELSE 0], all)
    IN  [tR |-> Sum(r), tG |-> Sum(g), tB |-> Sum(b),
         tH |-> Sum(hh), tS |-> Sum(ss), tV |-> Sum(vv),
         validPx |-> Sum(one), shadowPx |-> Sum(sh),
         burnedPx |-> Sum(bu), darkPx |-> Sum(da), lightPx |-> Sum(li),
         \* hueValues sorted, element floor(length / 2); 30 when empty
         medianHue |-> IF hueCount > 0
                       THEN CHOOSE m \in {hsv[i].h : i \in {j \in 1..n : hued(j)}} :
                                /\ upTo(m) > hueCount \div 2
                                /\ upTo(m - 1) <= hueCount \div 2
                       ELSE 30]

\* The pixel pass of analyzeImage: the shadow pre-pass, then the pixel loop.
PixelPass(buf, w, h) == PixelLoop(buf, HsvBuffer(buf), GlobalMeans(buf, w, h), w, h)

\* The mottling score from the number of real defects of type mottled or dark.
MottlingScore(realDefects) ==
    LET count == Len(SelectSeq(realDefects, LAMBDA d : d.type = "mottled" \/ d.type = "dark"))
    IN  IF count >= 20 THEN 9
        ELSE IF count >= 15 THEN 8
        ELSE IF count >= 10 THEN 7
        ELSE IF count >= 5 THEN 6
        ELSE 5

\* sum of d.severity * d.positionWeight over the real defects.
WeightedDefectSeverity(realDefects) ==
    SumTo([j \in 1..Len(realDefects) |->
             (realDefects[j].severity * realDefects[j].positionWeight) \div ONE],
          Len(realDefects))

\* The defect score from burnedRatio = burnedPx / validPx and the weighted
\* defect severity.
DefectScore(burnedPx, validPx, weightedDefectSeverity) ==
    IF 10 * burnedPx > 3 * validPx \/ weightedDefectSeverity > 15 * ONE THEN 9
    ELSE IF 10 * burnedPx > 2 * validPx \/ weightedDefectSeverity > 10 * ONE THEN 8
    ELSE IF 10 * burnedPx > validPx \/ weightedDefectSeverity > 6 * ONE THEN 7
    ELSE IF 100 * burnedPx > 5 * validPx \/ weightedDefectSeverity > 3 * ONE THEN 6
    ELSE 5

\* The record analyzeImage returns, but for the field analysisTime, from
\* what its passes over the pixels have computed: the white-balance gains,
\* the crunch score, the sums of the pixel pass, the regions of
\* detectDefects and the three maps.
AnalysisResult(wbGains, crunchScore, pass, allDefects, hueHistogram, heatmapData, gradCamData) ==
    LET validPx == IF pass.validPx = 0 THEN 1 ELSE pass.validPx
        meanR == (pass.tR * 100) \div validPx
        meanG == (pass.tG * 100) \div validPx
        meanB == (pass.tB * 100) \div validPx
        meanH == (pass.tH \div validPx) * ONE + ((pass.tH % validPx) * ONE) \div validPx
        meanS == pass.tS \div validPx
        meanV == pass.tV \div validPx
        dE == DeltaEToGold(meanR, meanG, meanB)
        maillard == computeMaillardRisk(dE)
        agtronScore == estimateAgtron(meanR, meanG, meanB)
        usdaColorScore == getUsdaScore(agtronScore)
        processColorScore == getProcessColorScore(usdaColorScore)
        hueScore == getHueScore(meanH, meanS)
        realDefects == SelectSeq(allDefects, LAMBDA d : ~d.isArtifact)
        mottlingScore == MottlingScore(realDefects)
        defectScore == DefectScore(pass.burnedPx, validPx, WeightedDefectSeverity(realDefects))
        sc == <<processColorScore, hueScore, mottlingScore, defectScore>>
    IN  [pixelStats |->
           [meanR |-> meanR, meanG |-> meanG, meanB |-> meanB,
            meanH |-> meanH, meanS |-> meanS, meanV |-> meanV,
            medianHue |-> pass.medianHue,
            darkPixelRatio |-> (pass.darkPx * ONE) \div validPx,
            burnedPixelRatio |-> (pass.burnedPx * ONE) \div validPx,
            lightPixelRatio |-> (pass.lightPx * ONE) \div validPx,
            totalPixels |-> validPx,
            agtronScore |-> agtronScore,
            whiteBalanceGain |-> [c \in 1..3 |-> (wbGains[c].n * ONE) \div wbGains[c].d],
            shadowMaskRatio |-> (pass.shadowPx * ONE) \div (validPx + pass.shadowPx + 1),
            crunchScore |-> crunchScore,
            maillardRisk |-> maillard.risk,
            deltaE2000 |-> dE,
            fuzzyConfidence |-> (Cardinality({i \in 1..4 : sc[i] = 5}) * ONE) \div 4],
         usdaColorScore |-> usdaColorScore,
         usdaScoreLabel |-> getUsdaLabel(usdaColorScore),
         processColorScore |-> processColorScore,
         hueScore |-> hueScore,
         mottlingScore |-> mottlingScore,
         defectScore |-> defectScore,
         overallAppearanceScore |-> Max2(Max2(sc[1], sc[2]), Max2(sc[3], sc[4])),
         defects |-> allDefects,
         pqi |-> fuzzyPQI(sc),
         defectCount |-> Len(realDefects),
         hueHistogram |-> hueHistogram,
         heatmapData |-> heatmapData,
         gradCamData |-> gradCamData,
         acrylamideIndex |-> maillard.index]

\* analyzeImage once the white balance is applied: rawData (the buffer at
\* rawRef) feeds the crunch score, wbData (data, at wbRef) everything else.
AnalyzeBalanced(balanced, rawRef, wbRef, wbGains, width, height, p, allDefects) ==
    [heap |-> balanced,
     result |-> AnalysisResult(wbGains,
                               computeCrunchScore(balanced[rawRef], width, height),
                               PixelPass(balanced[wbRef], width, height),
                               allDefects,
                               generateHueHistogram(balanced[wbRef], width, height),
                               generateHeatmap(balanced[wbRef], width, height),
                               generateGradCam(width, height, allDefects))]

\* new ImageData(data, sw, sh), the constructor of the DOM, for data of
\* 4 * sw * sh bytes: it throws an InvalidStateError when data is empty,
\* which it is when sw or sh is zero.
ImageDataThrows(sw, sh) == sw = 0 \/ sh = 0

\* What an async function that threw leaves its caller with.
Rejected(error) == [rejected |-> error]

\* analyzeImage(imageData, ppm) on heap h: the heap it leaves behind and
\* what it returns: the record, but for the field analysisTime, which the
\* step that runs the call adds from the two readings of the clock, or the
\* rejection when wbImageData cannot be constructed.
analyzeImage(h, image, p) ==
    LET rawData == NewUint8ClampedArray(h, image.data)
        wbData == NewUint8ClampedArray(rawData.heap, rawData.ref)
        Continue(wbGains) ==
            LET balanced == applyWhiteBalance(wbData.heap, wbData.ref, wbGains)
            IN  IF ImageDataThrows(image.width, image.height)
                THEN [heap |-> balanced, result |-> Rejected("InvalidStateError")]
                ELSE AnalyzeBalanced(balanced, rawData.ref, wbData.ref, wbGains,
                                     image.width, image.height, p,
                                     detectDefects(balanced[wbData.ref],
                                                   image.width, image.height, p))
    IN  Continue(estimateWhiteBalance(rawData.heap[rawData.ref], image.width, image.height))

(***************************************************************************)
(* The scorer as a state machine: any four scores in 1..9 are handed to    *)
(* calculatePQI once.                                                      *)
(***************************************************************************)
ScoreRange == 1..9
ScoreVectors == [1..4 -> ScoreRange]

\* No page is open.
NoPage == ui = <<>> /\ uploads = <<>> /\ timers = <<>>

\* No colour function is under call.
NoCall == args = <<>> /\ returned = <<>>

\* No image is under analysis.
NoImage ==
    /\ imageData = [width |-> 0, height |-> 0, data |-> 0]
    /\ heap = <<>>
    /\ ppm = 100
    /\ detected = <<>>
    /\ results = <<>>
    /\ clock = 0

InitPQI ==
    /\ NoPage
    /\ scores \in ScoreVectors
    /\ pqi = <<>>
    /\ NoImage
    /\ NoCall

CalculatePQI ==
    /\ pqi = <<>>
    /\ pqi' = <<calculatePQI(scores)>>
    /\ UNCHANGED <<scores, imageData, heap, ppm, detected, results, clock, args, returned,
                   ui, uploads, timers>>

NextPQI == CalculatePQI

SpecPQI == InitPQI /\ [][NextPQI]_vars

(***************************************************************************)
(* Images offered to the engine                                            *)
(*                                                                         *)
(* A fry-coloured image in which up to MaxOdd grid cells are painted, in   *)
(* full or in part, with one of the colours a defect rule, the shadow      *)
(* rule or the background rules react to.                                  *)
(***************************************************************************)
Pixel(r, g, b, a) == [r |-> r, g |-> g, b |-> b, a |-> a]

Gold    == Pixel(161, 131, 88, 255)     \* hue 35, s 0.45, v 0.63: the target
Burnt   == Pixel(38, 33, 27, 255)       \* v 0.15, s 0.29
Dark    == Pixel(71, 54, 36, 255)       \* v 0.28, s 0.49
Light   == Pixel(255, 242, 217, 255)    \* v 1.0, s 0.15
Pale    == Pixel(226, 213, 190, 255)    \* v 0.89, s 0.16: light, severity 0.08
OffHue  == Pixel(77, 115, 58, 255)      \* hue 100, s 0.50, v 0.45
Shade   == Pixel(62, 66, 72, 255)       \* hue 216, s 0.14, v 0.28: cast shadow
White   == Pixel(250, 250, 250, 255)    \* near-white background
Clear   == Pixel(0, 0, 0, 0)            \* transparent
Black   == Pixel(0, 0, 0, 255)          \* opaque black: luminance 0
Dim     == Pixel(20, 18, 15, 255)       \* near-neutral, luminance 18: below the trusted 30

\* How much of a cell is painted: all of it, its left half, or all but its
\* lower right quarter.
Covers(pattern, dx, dy) ==
    CASE pattern = "full"   -> TRUE
      [] pattern = "half"   -> 2 * dx < CELL
      [] pattern = "threeq" -> 2 * dx < CELL \/ 2 * dy < CELL

Paint(colour, pattern) == [colour |-> colour, pattern |-> pattern]

PaintChoices ==
    {Paint(c, "full") : c \in {Burnt, Dark, Light, Pale, OffHue, Shade, Clear}}
      \cup {Paint(Shade, "half"), Paint(Shade, "threeq")}

MaxOdd == 2

\* The ways to paint at most MaxOdd of the cells 1..nCells.
Layouts(nCells) ==
    UNION {[cs -> PaintChoices] :
             cs \in {c \in SUBSET (1..nCells) : Cardinality(c) <= MaxOdd}}

\* The buffer of a w x h image of colour base painted as layout says.
BuildBuffer(w, h, base, layout) ==
    [i \in 1..NBlocks(w, h) |->
        LET x == ((i - 1) % NBX(w)) * BLOCK
            y == ((i - 1) \div NBX(w)) * BLOCK
            cell == (y \div CELL) * CeilDiv(w, CELL) + (x \div CELL) + 1
        IN  IF cell \in DOMAIN layout /\ Covers(layout[cell].pattern, x % CELL, y % CELL)
            THEN layout[cell].colour
            ELSE base]

\* Width and height of the images: one row of three whole cells and a
\* clipped one, two rows of cells clipped at the right and the bottom, and
\* one column of two whole cells and a clipped one.
ImageSizes == {<<65, 20>>, <<45, 30>>, <<20, 50>>}

\* ppm as the caller passes it, in hundredths: the default 1 and
\* DEFAULT_CALIBRATION's 3.78.
PpmChoices == {100, 378}

ImageChosen ==
    \E size \in ImageSizes :
        \E layout \in Layouts(CeilDiv(size[1], CELL) * CeilDiv(size[2], CELL)) :
            /\ imageData = [width |-> size[1], height |-> size[2], data |-> 1]
            /\ heap = <<BuildBuffer(size[1], size[2], Gold, layout)>>

(***************************************************************************)
(* detectDefects as a state machine: the caller hands its image to         *)
(* detectDefects once.                                                     *)
(***************************************************************************)
InitDetect ==
    /\ NoPage
    /\ ImageChosen
    /\ ppm \in PpmChoices
    /\ detected = <<>>
    /\ scores = <<5, 5, 5, 5>>
    /\ pqi = <<>>
    /\ NoCall
    /\ results = <<>>
    /\ clock = 0

DetectDefects ==
    /\ detected = <<>>
    /\ detected' = <<detectDefects(heap[imageData.data], imageData.width,
                                   imageData.height, ppm)>>
    /\ UNCHANGED <<scores, pqi, imageData, heap, ppm, results, clock, args, returned,
                   ui, uploads, timers>>

NextDetect == DetectDefects

SpecDetect == InitDetect /\ [][NextDetect]_vars

(***************************************************************************)
(* analyzeImage as a state machine: the caller hands the same ImageData    *)
(* and ppm to analyzeImage up to MaxCalls times.  analyzeImage has no      *)
(* await, so a call runs from entry to return as one step; the clock       *)
(* advances by up to MaxElapsed milliseconds while it runs.                *)
(***************************************************************************)
MaxCalls == 2
MaxElapsed == 1

\* The ways to paint at most one of the cells 1..nCells.
OneCellLayouts(nCells) ==
    UNION {[cs -> PaintChoices] : cs \in {{}} \cup {{c} : c \in 1..nCells}}

\* The colours of the images of one colour that analyzeImage is handed
\* besides the fry-coloured ones.
UniformColours == {Clear, Black, Dim}

InitAnalyze ==
    /\ NoPage
    /\ \E size \in ImageSizes :
          /\ imageData = [width |-> size[1], height |-> size[2], data |-> 1]
          /\ \/ \E layout \in OneCellLayouts(CeilDiv(size[1], CELL) * CeilDiv(size[2], CELL)) :
                    heap = <<BuildBuffer(size[1], size[2], Gold, layout)>>
             \/ \E base \in UniformColours :
                    heap = <<BuildBuffer(size[1], size[2], base, <<>>)>>
    /\ ppm \in PpmChoices
    /\ results = <<>>
    /\ clock = 0
    /\ detected = <<>>
    /\ scores = <<5, 5, 5, 5>>
    /\ pqi = <<>>
    /\ NoCall

AnalyzeImage ==
    /\ Len(results) < MaxCalls
    /\ \E out \in {analyzeImage(heap, imageData, ppm)}, elapsed \in 0..MaxElapsed :
          LET start == clock
          IN  /\ clock' = clock + elapsed
              /\ results' = Append(results,
                                   IF "rejected" \in DOMAIN out.result
                                   THEN out.result
                                   \* analysisTime: Date.now() - start
                                   ELSE out.result @@ [analysisTime |-> clock' - start])
              \* rawData and wbData are unreachable once the call has returned
              /\ heap' = SubSeq(out.heap, 1, Len(heap))
    /\ UNCHANGED <<scores, pqi, imageData, ppm, detected, args, returned,
                   ui, uploads, timers>>

NextAnalyze == AnalyzeImage

SpecAnalyze == InitAnalyze /\ [][NextAnalyze]_vars

(***************************************************************************)
(* analyzeImage handed an image without a qualifying pixel: an image of    *)
(* no pixels at all, or one whose pixels are all transparent (alpha below  *)
(* 128), whatever their colour.                                            *)
(***************************************************************************)
Faint == Pixel(161, 131, 88, 127)       \* the fry colour, alpha just below 128

\* Width and height of the images of no pixels.
ZeroSizes == {<<0, 0>>, <<0, 20>>, <<65, 0>>}

\* The ways to leave a transparent image alone or to paint one of the
\* cells 1..nCells, or its left half, faint.
FaintLayouts(nCells) ==
    UNION {[cs -> {Paint(Faint, "full"), Paint(Faint, "half")}] :
             cs \in {{}} \cup {{c} : c \in 1..nCells}}

InitMalformed ==
    /\ NoPage
    /\ \E size \in ImageSizes \cup ZeroSizes :
          /\ imageData = [width |-> size[1], height |-> size[2], data |-> 1]
          /\ \E layout \in FaintLayouts(CeilDiv(size[1], CELL) * CeilDiv(size[2], CELL)) :
                 heap = <<BuildBuffer(size[1], size[2], Clear, layout)>>
    /\ ppm \in PpmChoices
    /\ results = <<>>
    /\ clock = 0
    /\ detected = <<>>
    /\ scores = <<5, 5, 5, 5>>
    /\ pqi = <<>>
    /\ NoCall

SpecMalformed == InitMalformed /\ [][NextAnalyze]_vars

(***************************************************************************)
(* rgbToHsv as a state machine: the caller hands three channel values to   *)
(* rgbToHsv once.  The channel values are the multiples of ChannelStep     *)
(* and the values next to the ends of the range 0..255.                    *)
(***************************************************************************)
ChannelStep == 5

ChannelLevels == {k * ChannelStep : k \in 0..(255 \div ChannelStep)} \cup {1, 254, 255}

InitHsv ==
    /\ NoPage
    /\ args \in [r : ChannelLevels, g : ChannelLevels, b : ChannelLevels]
    /\ returned = <<>>
    /\ scores = <<5, 5, 5, 5>>
    /\ pqi = <<>>
    /\ NoImage

RgbToHsv ==
    /\ returned = <<>>
    /\ returned' = <<rgbToHsv(args.r, args.g, args.b)>>
    /\ UNCHANGED <<scores, pqi, imageData, heap, ppm, detected, results, clock, args,
                   ui, uploads, timers>>

NextHsv == RgbToHsv

SpecHsv == InitHsv /\ [][NextHsv]_vars

(***************************************************************************)
(* deltaE2000 as a state machine: the caller hands two Lab colours to      *)
(* deltaE2000 once.  The colours have L 0, 50 or 100 and a and b on a grid *)
(* of step LabStep around 0; the target colour is among them.              *)
(***************************************************************************)
LabStep == 16

LabColours ==
    {[L |-> l * 100, a |-> i * LabStep * 100, b |-> j * LabStep * 100] :
        l \in {0, 50, 100}, i \in -2..2, j \in -2..2} \cup {MC_GOLD_LAB}

InitDeltaE ==
    /\ NoPage
    /\ args \in [lab1 : LabColours, lab2 : LabColours]
    /\ returned = <<>>
    /\ scores = <<5, 5, 5, 5>>
    /\ pqi = <<>>
    /\ NoImage

DeltaE2000 ==
    /\ returned = <<>>
    /\ returned' = <<deltaE2000(args.lab1, args.lab2)>>
    /\ UNCHANGED <<scores, pqi, imageData, heap, ppm, detected, results, clock, args,
                   ui, uploads, timers>>

NextDeltaE == DeltaE2000

SpecDeltaE == InitDeltaE /\ [][NextDeltaE]_vars

(***************************************************************************)
(* The process-colour score as a state machine: as analyzeImage does, the  *)
(* caller hands an Agtron estimate to getUsdaScore and the result to       *)
(* getProcessColorScore.  estimateAgtron yields the integers 20..100.      *)
(***************************************************************************)
AgtronValues == 20..100

InitColorScore ==
    /\ NoPage
    /\ args \in [agtron : AgtronValues]
    /\ returned = <<>>
    /\ scores = <<5, 5, 5, 5>>
    /\ pqi = <<>>
    /\ NoImage

GetProcessColorScore ==
    /\ returned = <<>>
    /\ \E usdaScore \in {getUsdaScore(args.agtron)} :
          returned' = <<[usdaScore |-> usdaScore,
                         processColor |-> getProcessColorScore(usdaScore)]>>
    /\ UNCHANGED <<scores, pqi, imageData, heap, ppm, detected, results, clock, args,
                   ui, uploads, timers>>

NextColorScore == GetProcessColorScore

SpecColorScore == InitColorScore /\ [][NextColorScore]_vars

(***************************************************************************)
(* getHueScore as a state machine: the caller hands a mean hue and a mean  *)
(* saturation to getHueScore once.  The hues are the whole degrees, the    *)
(* saturations the twentieths.                                             *)
(***************************************************************************)
HueValues == {d * ONE : d \in 0..360}

SaturationValues == {Frac(k, 20) : k \in 0..20}

InitHueScore ==
    /\ NoPage
    /\ args \in [meanH : HueValues, meanS : SaturationValues]
    /\ returned = <<>>
    /\ scores = <<5, 5, 5, 5>>
    /\ pqi = <<>>
    /\ NoImage

GetHueScore ==
    /\ returned = <<>>
    /\ returned' = <<getHueScore(args.meanH, args.meanS)>>
    /\ UNCHANGED <<scores, pqi, imageData, heap, ppm, detected, results, clock, args,
                   ui, uploads, timers>>

NextHueScore == GetHueScore

SpecHueScore == InitHueScore /\ [][NextHueScore]_vars

(***************************************************************************)
(* The defect score as a state machine: detectDefects has classified the   *)
(* cells of an image of MaxRegions + 3 by 3 cells, the pixel pass has      *)
(* counted the burnt pixels, and analyzeImage computes the defect score    *)
(* from both.  In the top row (all of it tip cells) the first `tips` cells *)
(* matched a rule with severity `severity`, in the middle row `body` cells *)
(* away from the left and right margin did, and the first `shadows` cells  *)
(* of the bottom row are majority shadow.                                  *)
(***************************************************************************)
MaxRegions == 11

RuleSeverities == {Frac(2, 10), Frac(5, 10), Frac(8, 10), ONE}

PixelCounts == {[burnedPx |-> n, validPx |-> 100] : n \in {0, 4, 6, 15, 25, 35}}

\* The list detectDefects builds for the cells described by a.
RegionsFor(a) ==
    LET gridW == MaxRegions + 3
        w == gridW * CELL
        h == 3 * CELL
        cls == [type |-> "dark", severity |-> a.severity]
        region(gx, gy) ==
            DefectRegion(cls, PositionWeight(gx, gy, gridW, 3), gx, gy, w, h, ONE \div 100)
    IN  [j \in 1..a.tips |-> region(j - 1, 0)]
          \o [j \in 1..a.body |-> region(j + 1, 1)]
          \o [j \in 1..a.shadows |->
                ShadowRegion([shadowRatio |-> Frac(8, 10)], j - 1, 2, w, h, ONE \div 100)]

InitDefectScore ==
    /\ NoPage
    /\ args \in [severity : RuleSeverities, tips : 0..MaxRegions, body : 0..MaxRegions,
                  shadows : 0..2, pixels : PixelCounts]
    /\ returned = <<>>
    /\ scores = <<5, 5, 5, 5>>
    /\ pqi = <<>>
    /\ NoImage

ComputeDefectScore ==
    /\ returned = <<>>
    /\ \E allDefects \in {RegionsFor(args)} :
          LET realDefects == SelectSeq(allDefects, LAMBDA d : ~d.isArtifact)
          IN  returned' = <<DefectScore(args.pixels.burnedPx, args.pixels.validPx,
                                        WeightedDefectSeverity(realDefects))>>
    /\ UNCHANGED <<scores, pqi, imageData, heap, ppm, detected, results, clock, args,
                   ui, uploads, timers>>

NextDefectScore == ComputeDefectScore

SpecDefectScore == InitDefectScore /\ [][NextDefectScore]_vars

(***************************************************************************)
(* generateGradCam as a state machine: the caller hands the defect list of *)
(* an 80 x 40 image (4 x 2 cells) to generateGradCam once.  The list holds *)
(* up to MaxDefects regions of distinct cells in any order, each a         *)
(* classified cell of rule severity 0.3 or 1 or a majority-shadow cell.    *)
(***************************************************************************)
MaxDefects == 3

CamImage == [width |-> 4 * CELL, height |-> 2 * CELL]

\* The regions detectDefects can push for cell k of the image.
CamRegions(k) ==
    LET gridW == CeilDiv(CamImage.width, CELL)
        gridH == CeilDiv(CamImage.height, CELL)
        gx == (k - 1) % gridW
        gy == (k - 1) \div gridW
    IN  {DefectRegion([type |-> "dark", severity |-> sev],
                      PositionWeight(gx, gy, gridW, gridH), gx, gy,
                      CamImage.width, CamImage.height, ONE \div 100) :
            sev \in {Frac(3, 10), ONE}}
          \cup {ShadowRegion([shadowRatio |-> Frac(8, 10)], gx, gy,
                             CamImage.width, CamImage.height, ONE \div 100)}

\* The lists of up to MaxDefects regions of distinct cells, in any order.
DefectLists ==
    LET cells == 1..(CeilDiv(CamImage.width, CELL) * CeilDiv(CamImage.height, CELL))
        pool == UNION {CamRegions(k) : k \in cells}
    IN  UNION {{l \in [1..n -> pool] :
                  \A i, j \in 1..n : i # j => l[i].x # l[j].x \/ l[i].y # l[j].y} :
               n \in 0..MaxDefects}

InitGradCam ==
    /\ NoPage
    /\ args \in [defects : DefectLists]
    /\ returned = <<>>
    /\ scores = <<5, 5, 5, 5>>
    /\ pqi = <<>>
    /\ NoImage

GenerateGradCam ==
    /\ returned = <<>>
    /\ returned' = <<generateGradCam(CamImage.width, CamImage.height, args.defects)>>
    /\ UNCHANGED <<scores, pqi, imageData, heap, ppm, detected, results, clock, args,
                   ui, uploads, timers>>

NextGradCam == GenerateGradCam

SpecGradCam == InitGradCam /\ [][NextGradCam]_vars

(***************************************************************************)
(* The numbers of the calibration panel.  A finite number is               *)
(* num / den * 2^exp with den > 0, kept in lowest terms with num and den   *)
(* odd (zero is 0 / 1 * 2^0); Infinity is the value a double division      *)
(* gives when the quotient leaves the range of doubles.  The rounding of a *)
(* quotient to 53 bits is not modelled; the two ends of the range are.     *)
(***************************************************************************)
RECURSIVE GCD(_, _)
GCD(a, b) == IF b = 0 THEN a ELSE GCD(b, a % b)

Zero == [num |-> 0, den |-> 1, exp |-> 0]

Infinity == [num |-> 1, den |-> 0, exp |-> 0]

\* The number n / d * 2^e (d > 0) in its normal form.
RECURSIVE Number(_, _, _)
Number(n, d, e) ==
    IF n = 0 THEN Zero
    ELSE IF n % 2 = 0 /\ d % 2 = 0 THEN Number(n \div 2, d \div 2, e)
    ELSE IF n % 2 = 0 THEN Number(n \div 2, d, e + 1)
    ELSE IF d % 2 = 0 THEN Number(n, d \div 2, e - 1)
    ELSE LET g == GCD(IF n < 0 THEN -n ELSE n, d)
         IN  [num |-> n \div g, den |-> d \div g, exp |-> e]

\* x > 0, as JavaScript compares.
IsPositive(x) == x.num > 0

\* The largest double is below 2^(MaxExponent + 1); the smallest positive
\* double is 2^MinExponent.
MaxExponent == 1023

MinExponent == -1074

\* For n, d > 0: the k with 2^k <= n / d < 2^(k + 1).
RECURSIVE Log2Floor(_, _)
Log2Floor(n, d) ==
    IF n >= 2 * d THEN Log2Floor(n, 2 * d) + 1
    ELSE IF n < d THEN Log2Floor(2 * n, d) - 1
    ELSE 0

\* x / y for positive finite x and y: Infinity when the quotient is beyond
\* the largest double, 0 when it is at most half the smallest positive
\* double (a tie rounds to the even neighbour, which is 0).
Divide(x, y) ==
    LET n == x.num * y.den
        d == x.den * y.num
        e == x.exp - y.exp
        top == Log2Floor(n, d) + e
    IN  IF top > MaxExponent THEN Infinity
        ELSE IF top < MinExponent - 1 \/ (top = MinExponent - 1 /\ Number(n, d, 0).num = 1
                                            /\ Number(n, d, 0).den = 1)
        THEN Zero
        ELSE Number(n, d, e)

\* Default calibration: assumes ~3.78 pixels per mm (96 DPI standard).
DEFAULT_CALIBRATION ==
    [ppm |-> Number(378, 100, 0),
     referenceLength |-> Number(254, 10, 0),
     pixelLength |-> Number(96, 1, 0),
     isCalibrated |-> FALSE]

(***************************************************************************)
(* The page as a state machine.  ui holds the React state of Index         *)
(* (result, isAnalyzing, calibration, batchRecords, currentImageSrc), of   *)
(* ImageAnalyzer (imageSrc, defects) and of CalibrationPanel (refLength,   *)
(* pixelLength).  null and [] are <<>>.  Every processImage call makes an  *)
(* object URL of its own, the number of the call; the result analyzeImage  *)
(* returns for the image of URL u, and its defect list, are written <<u>>: *)
(* the page stores them and never looks inside.  The analysis tab stays    *)
(* open.                                                                   *)
(*                                                                         *)
(* Every step is one task of the event loop.  An upload is "loading" from  *)
(* processImage to its onload, "waiting" while its 50 ms timer is pending, *)
(* then "done", or "threw" when analyzeImage rejected, or "returned" when  *)
(* onload found no canvas.  The images load in any order.  The timers have *)
(* the same delay, so they fire in the order they were set.  analyzeImage  *)
(* has no await inside, so the step of a timer runs the analysis and the   *)
(* state updates after it without another task in between.                 *)
(***************************************************************************)
MaxUploads == 3

InitPage ==
    /\ ui = [result |-> <<>>, isAnalyzing |-> FALSE, calibration |-> DEFAULT_CALIBRATION,
             batchRecords |-> <<>>, currentImageSrc |-> <<>>,
             imageSrc |-> <<>>, defects |-> <<>>,
             refLength |-> Number(254, 10, 0), pixelLength |-> Number(96, 1, 0)]
    /\ uploads = <<>>
    /\ timers = <<>>
    /\ scores = <<5, 5, 5, 5>>
    /\ pqi = <<>>
    /\ NoImage
    /\ NoCall

\* processImage(file), from the file input or a drop.
ProcessImage ==
    /\ Len(uploads) < MaxUploads
    /\ \E url \in {Len(uploads) + 1} :
          /\ ui' = [ui EXCEPT !.imageSrc = <<url>>]
          /\ uploads' = Append(uploads, [url |-> url, at |-> "loading"])
    /\ UNCHANGED <<scores, pqi, imageData, heap, ppm, detected, results, clock, args,
                   returned, timers>>

\* img.onload of upload i, up to its first await.
OnLoad(i) ==
    /\ uploads[i].at = "loading"
    /\ IF ui.imageSrc = <<>>
       THEN /\ uploads' = [uploads EXCEPT ![i].at = "returned"]
            /\ UNCHANGED <<ui, timers>>
       ELSE /\ ui' = [ui EXCEPT !.isAnalyzing = TRUE]
            /\ timers' = Append(timers, i)
            /\ uploads' = [uploads EXCEPT ![i].at = "waiting"]
    /\ UNCHANGED <<scores, pqi, imageData, heap, ppm, detected, results, clock, args,
                   returned>>

\* handleAnalysisComplete(res, imageData, imageSrc) on the state u of the page.
handleAnalysisComplete(u, res, imageSrc) ==
    [u EXCEPT !.result = res,
              !.currentImageSrc = <<imageSrc>>,
              !.batchRecords = <<imageSrc>> \o @]

\* The oldest timer fires: the rest of img.onload of that upload, from the
\* first await to the end of finally.  analyzeImage returns or rejects.
OnTimeout ==
    /\ timers # <<>>
    /\ \E i \in {Head(timers)}, rejects \in BOOLEAN :
          /\ ui' = IF rejects
                   THEN [ui EXCEPT !.isAnalyzing = FALSE]
                   ELSE [handleAnalysisComplete([ui EXCEPT !.defects = <<uploads[i].url>>],
                                                <<uploads[i].url>>, uploads[i].url)
                            EXCEPT !.isAnalyzing = FALSE]
          /\ uploads' = [uploads EXCEPT ![i].at = IF rejects THEN "threw" ELSE "done"]
    /\ timers' = Tail(timers)
    /\ UNCHANGED <<scores, pqi, imageData, heap, ppm, detected, results, clock, args,
                   returned>>

\* The CLEAR button.
ClearImage ==
    /\ ui.imageSrc # <<>>
    /\ ui' = [ui EXCEPT !.imageSrc = <<>>, !.defects = <<>>]
    /\ UNCHANGED <<scores, pqi, imageData, heap, ppm, detected, results, clock, args,
                   returned, uploads, timers>>

NextUpload ==
    \/ ProcessImage
    \/ \E i \in DOMAIN uploads : OnLoad(i)
    \/ OnTimeout
    \/ ClearImage

SpecUpload == InitPage /\ [][NextUpload]_vars

(***************************************************************************)
(* The calibration tab: the two number inputs, APPLY CALIBRATION and the   *)
(* reset button.  A number input yields any double the user types, the     *)
(* min attribute notwithstanding: NumberInputs holds 0, a negative number, *)
(* ordinary lengths and the largest power of two and the smallest positive *)
(* double.                                                                 *)
(***************************************************************************)
NumberInputs ==
    {Zero, Number(-1, 1, 0), Number(1, 2, 0), Number(1, 1, 0), Number(254, 10, 0),
     Number(96, 1, 0), Number(1, 1, MaxExponent), Number(1, 1, MinExponent)}

\* setRefLength(Number(e.target.value))
SetRefLength(value) ==
    /\ ui' = [ui EXCEPT !.refLength = value]
    /\ UNCHANGED <<scores, pqi, imageData, heap, ppm, detected, results, clock, args,
                   returned, uploads, timers>>

\* setPixelLength(Number(e.target.value))
SetPixelLength(value) ==
    /\ ui' = [ui EXCEPT !.pixelLength = value]
    /\ UNCHANGED <<scores, pqi, imageData, heap, ppm, detected, results, clock, args,
                   returned, uploads, timers>>

\* handleManualCalibrate on the state u of the page.
handleManualCalibrate(u) ==
    IF IsPositive(u.pixelLength) /\ IsPositive(u.refLength)
    THEN [u EXCEPT !.calibration = [ppm |-> Divide(u.pixelLength, u.refLength),
                                    referenceLength |-> u.refLength,
                                    pixelLength |-> u.pixelLength,
                                    isCalibrated |-> TRUE]]
    ELSE u

\* The APPLY CALIBRATION button.
HandleManualCalibrate ==
    /\ ui' = handleManualCalibrate(ui)
    /\ UNCHANGED <<scores, pqi, imageData, heap, ppm, detected, results, clock, args,
                   returned, uploads, timers>>

\* The reset button.
HandleReset ==
    /\ ui' = [ui EXCEPT !.calibration = DEFAULT_CALIBRATION]
    /\ UNCHANGED <<scores, pqi, imageData, heap, ppm, detected, results, clock, args,
                   returned, uploads, timers>>

NextCalibration ==
    \/ \E value \in NumberInputs : SetRefLength(value)
    \/ \E value \in NumberInputs : SetPixelLength(value)
    \/ HandleManualCalibrate
    \/ HandleReset

SpecCalibration == InitPage /\ [][NextCalibration]_vars

(***************************************************************************)
(* Claims about the composite index (checked under SpecPQI)                *)
(***************************************************************************)

\* C1: whenever at least one of the four scores is 1 or 9, the index
\* calculatePQI returned is exactly 0, whatever the other three scores are
\* (a 2 or an 8 among them included).
C1_RejectedIsZero ==
    (pqi # <<>> /\ \E i \in 1..4 : scores[i] \in {1, 9}) => pqi[1] = 0

\* C1 witness: an index was returned for a vector holding both a 9 and a 2.
C1_Witness ==
    /\ pqi = <<0>>
    /\ \E i, j \in 1..4 : scores[i] = 9 /\ scores[j] = 2

\* C2: the returned index is 25 exactly when no score is 1 or 9 and some
\* score is 2 or 8; in particular no vector within 3..7 yields 25.
C2_FailedIffTwentyFive ==
    pqi # <<>> =>
        (pqi[1] = 25 <=> /\ \A i \in 1..4 : scores[i] \notin {1, 9}
                      /\ \E i \in 1..4 : scores[i] \in {2, 8})

\* C2 witness: 25 was returned for a vector whose only off-range score is an 8.
C2_Witness ==
    /\ pqi = <<25>>
    /\ \E i \in 1..4 : /\ scores[i] = 8
                         /\ \A j \in (1..4) \ {i} : scores[j] \in 3..7

\* C3: the returned index is an integer in [0,100].
C3_IndexInRange ==
    pqi # <<>> => pqi[1] \in 0..100

\* C3 witness: the all-target vector, whose aggregate (141.67) exceeds 100
\* before the clamp, was scored 100.
C3_Witness ==
    /\ pqi = <<100>>
    /\ \A i \in 1..4 : scores[i] = 5
    /\ FuzzyAggregate(scores) > 100 * PQU

(***************************************************************************)
(* Claims about detectDefects (checked under SpecDetect)                   *)
(***************************************************************************)
Regions(list) == {list[i] : i \in 1..Len(list)}

\* The regions detectDefects returned (none before the call).
Returned == IF detected = <<>> THEN {} ELSE Regions(detected[1])

\* C6: in the returned list a region has isArtifact = true if and only if
\* its type is 'shadow'.
C6_ArtifactIffShadow ==
    \A d \in Returned : d.isArtifact <=> d.type = "shadow"

\* C6 witness: a returned list holds a shadow region and a region of
\* another kind.
C6_Witness ==
    /\ \E d \in Returned : d.type = "shadow" /\ d.isArtifact
    /\ \E d \in Returned : d.type # "shadow" /\ ~d.isArtifact

\* C9: every returned region lies within the image: x >= 0, y >= 0,
\* width >= 1, height >= 1, x + width <= image width and y + height <=
\* image height, also when the image size is no multiple of the cell side.
C9_RegionWithinImage ==
    \A d \in Returned :
        /\ d.x >= 0 /\ d.y >= 0
        /\ d.width >= 1 /\ d.height >= 1
        /\ d.x + d.width <= imageData.width
        /\ d.y + d.height <= imageData.height

\* C9 witness: a region of the clipped last column and last row was
\* returned for an image whose sides are no multiples of the cell side.
C9_Witness ==
    /\ imageData.width % CELL # 0 /\ imageData.height % CELL # 0
    /\ \E d \in Returned :
          /\ ~d.isArtifact
          /\ d.width < CELL /\ d.x + d.width = imageData.width
          /\ d.height < CELL /\ d.y + d.height = imageData.height

\* C10: every returned region, shadow or not, has severity in [0,1], also
\* after the multiplication by the position weight 1.5.
C10_SeverityInUnitRange ==
    \A d \in Returned : d.severity >= 0 /\ d.severity <= ONE

\* C10 witness: a burnt tip region (rule severity 1 - v < 1, weight 1.5)
\* was stored with severity 1, next to a shadow region.
C10_Witness ==
    /\ \E d \in Returned :
          d.type = "burnt" /\ d.positionWeight = Frac(3, 2) /\ d.severity = ONE
    /\ \E d \in Returned : d.type = "shadow" /\ d.severity > 0

\* The list the classification loop built for the image under analysis,
\* before the one-third rule: the candidates of the filter.
Candidates == ClassifiedDefects(heap[imageData.data], imageData.width,
                                imageData.height, ppm)

NonShadow(list) == SelectSeq(list, LAMBDA d : d.type # "shadow")

\* C7 (statement of the claim, refuted): the non-shadow regions returned,
\* strip coverage included, and with them the mottled defects that
\* survived, the defect count, and what the mottling score, the defect
\* score and the explainability grid are computed from, are what they are
\* when the shadow regions of the image are left out of the one-third rule.
C7_ShadowsInfluenceNothing ==
    detected # <<>> =>
        LET with == detected[1]
            without == applyMottlingThirdRule(NonShadow(Candidates), imageData.width)
        IN  /\ Regions(NonShadow(with)) = Regions(without)
            /\ Len(NonShadow(with)) = Len(without)
            /\ MottlingScore(NonShadow(with)) = MottlingScore(without)
            /\ WeightedDefectSeverity(NonShadow(with)) = WeightedDefectSeverity(without)
            /\ generateGradCam(imageData.width, imageData.height, with)
                  = generateGradCam(imageData.width, imageData.height, without)

\* The row-band of the one-third rule as the claim has it: floor(y / 30).
BandOf(d) == d.y \div 30

\* The summed width of the non-shadow candidates in the row-band of d.
BandWidth(d) ==
    LET list == NonShadow(Candidates)
    IN  SumTo([j \in 1..Len(list) |->
                 IF BandOf(list[j]) = BandOf(d) THEN list[j].width ELSE 0],
              Len(list))

ReturnedAt(d) == {e \in Returned : e.x = d.x /\ e.y = d.y /\ e.type = d.type}

\* C8 (statement of the claim, refuted): a mottled candidate is absent from
\* the returned list when the coverage of its row-band is below 1/3 and
\* present when it is at least 1/3; a candidate of another kind is
\* returned and carries its band's coverage in stripCoverage.
C8_OneThirdRule ==
    detected # <<>> =>
        \A d \in Regions(NonShadow(Candidates)) :
            IF d.type = "mottled"
            THEN /\ 3 * BandWidth(d) < imageData.width => ReturnedAt(d) = {}
                 /\ 3 * BandWidth(d) >= imageData.width => ReturnedAt(d) # {}
            ELSE \E e \in ReturnedAt(d) :
                     e.stripCoverage = (BandWidth(d) * ONE) \div imageData.width

(***************************************************************************)
(* Claims about analyzeImage (checked under SpecAnalyze)                   *)
(***************************************************************************)

\* C4 (statement of the claim, refuted): the records of any two calls on
\* the same buffer and ppm are identical in every field.
C4_IdenticalInEveryField ==
    \A i, j \in 1..Len(results) : results[i] = results[j]

WithoutTime(result) == [result EXCEPT !.analysisTime = 0]

\* C4 (amended): the records of any two calls on the same buffer and ppm
\* are identical in every field except analysisTime.
C4_IdenticalExceptAnalysisTime ==
    \A i, j \in 1..Len(results) : WithoutTime(results[i]) = WithoutTime(results[j])

\* C4 witness: two calls have returned for an image that white balance
\* changes and that has defects, and they took different times.
C4_Witness ==
    /\ Len(results) >= 2
    /\ results[1].analysisTime # results[2].analysisTime
    /\ results[1].pixelStats.whiteBalanceGain # <<ONE, ONE, ONE>>
    /\ results[1].defects # <<>>

\* C5: a call of analyzeImage leaves every byte of the caller's buffer
\* (alpha included) as it was although white balance changes bytes of the
\* data it analyses, and the crunch score it returns is the one of the
\* buffer's bytes as they were before white balance.
C5_InputBufferNeverWritten ==
    [][Len(results') > Len(results) =>
          /\ heap'[imageData.data] = heap[imageData.data]
          /\ results'[Len(results')].pixelStats.crunchScore
                = computeCrunchScore(heap[imageData.data], imageData.width, imageData.height)]_vars

\* The caller's buffer as white balance would leave it if it were applied
\* to it in place.
InputBalanced ==
    applyWhiteBalance(heap, imageData.data,
        estimateWhiteBalance(heap[imageData.data], imageData.width, imageData.height))[imageData.data]

\* C5 witness: a call has returned for a buffer whose bytes the gains
\* change and whose crunch score differs before and after white balance.
C5_Witness ==
    /\ Len(results) >= 1
    /\ InputBalanced # heap[imageData.data]
    /\ computeCrunchScore(InputBalanced, imageData.width, imageData.height)
          # results[1].pixelStats.crunchScore

(***************************************************************************)
(* Claims about white balance (checked under SpecAnalyze)                  *)
(***************************************************************************)

\* The patches of the 5 x 5 sampling grid of the caller's image that hold
\* at least one pixel.
SampledPatches ==
    {p \in {WbPatch(heap[imageData.data], imageData.width, imageData.height, px, py) :
               px \in 0..4, py \in 0..4} : p.cnt > 0}

\* Some patch is near-neutral (its channel means pairwise less than 40
\* apart) and of luminance at least 30.
SomeTrustedPatch ==
    \E p \in SampledPatches :
        /\ Abs(p.sumR - p.sumG) < 40 * p.cnt
        /\ Abs(p.sumG - p.sumB) < 40 * p.cnt
        /\ Abs(p.sumR - p.sumB) < 40 * p.cnt
        /\ 299 * p.sumR + 587 * p.sumG + 114 * p.sumB >= 30 * 1000 * p.cnt

\* The white-balanced copy analyzeImage works on, as the call leaves it.
BalancedCopy == analyzeImage(heap, imageData, ppm).heap[Len(heap) + 2]

\* C11: when no patch of the sampling grid is both near-neutral and of
\* luminance at least 30, a call of analyzeImage reports the gains (1, 1, 1)
\* and its white-balanced copy is byte for byte the caller's image.
C11_UntrustedMeansIdentity ==
    [][(Len(results') > Len(results) /\ ~SomeTrustedPatch)
          => /\ results'[Len(results')].pixelStats.whiteBalanceGain = [c \in 1..3 |-> ONE]
             /\ BalancedCopy = heap[imageData.data]]_vars

\* A call has returned for an image whose only near-neutral patches are too
\* dim to be trusted, but not black.
C11_Witness ==
    /\ Len(results) > 0
    /\ ~SomeTrustedPatch
    /\ \E p \in SampledPatches : p.sumR > 0 /\ Abs(p.sumR - p.sumB) < 40 * p.cnt
    /\ results[1].pixelStats.whiteBalanceGain = [c \in 1..3 |-> ONE]

(***************************************************************************)
(* Claims about shadow suppression                                         *)
(***************************************************************************)

\* The squares of buf whose pixels isShadowPixel classifies as shadow
\* against the global baseline of buf.
ShadowSquares(buf, w, h) ==
    LET gm == GlobalMeans(buf, w, h)
    IN  {i \in 1..NBlocks(w, h) : isShadowPixel(HsvOf(buf[i]), gm.v, gm.s)}

\* The averages of hue, saturation and value over the fry-content pixels
\* (opaque, s > 0.08, v > 0.08) of cell (gx, gy) that are not shadow.
ShadowFreeAverage(buf, w, h, gx, gy) ==
    LET n == NBlocks(w, h)
        shadow == ShadowSquares(buf, w, h)
        sq == SquaresIn(CellRect(gx, gy, w, h), w, h)
        counted(i) == /\ i \notin shadow
                      /\ buf[i].a >= 128
                      /\ HsvOf(buf[i]).s > Frac(8, 100)
                      /\ HsvOf(buf[i]).v > Frac(8, 100)
        Sum(f(_)) == SumOver([i \in 1..n |-> IF counted(i) THEN f(i) ELSE 0], sq)
        hue(i) == HsvOf(buf[i]).h
        sat(i) == HsvOf(buf[i]).s
        val(i) == HsvOf(buf[i]).v
        one(i) == 1
        cnt == Sum(one)
    IN  [h |-> IF cnt > 0 THEN (Sum(hue) * ONE) \div cnt ELSE 0,
         s |-> IF cnt > 0 THEN Sum(sat) \div cnt ELSE 0,
         v |-> IF cnt > 0 THEN Sum(val) \div cnt ELSE 0]

\* The cells of the grid of buf that defect classification looks at (fry
\* content, not a shadow cell) carry the averages of their pixels that are
\* not shadow.
CellAveragesShadowFree(buf, w, h) ==
    LET grid == CellGrid(buf, w, h)
        gridW == CeilDiv(w, CELL)
    IN  \A k \in 1..Len(grid) :
            (grid[k].isFry /\ ~grid[k].isShadow)
               => [f \in {"h", "s", "v"} |-> grid[k][f]]
                    = ShadowFreeAverage(buf, w, h, (k - 1) % gridW, (k - 1) \div gridW)

\* The pixel statistics and colour scores of a result are those of the
\* pixels of buf that are not shadow: of buf with its shadow pixels taken
\* out, against the baseline of buf.
StatisticsShadowFree(result, buf, w, h) ==
    LET shadow == ShadowSquares(buf, w, h)
        without == [i \in 1..NBlocks(w, h) |-> IF i \in shadow THEN Clear ELSE buf[i]]
        expected == AnalysisResult(UnitGains, 0,
                                   PixelLoop(without, HsvBuffer(without),
                                             GlobalMeans(buf, w, h), w, h),
                                   <<>>, <<>>, <<>>, <<>>)
    IN  /\ \A f \in {"meanR", "meanG", "meanB", "meanH", "meanS", "meanV", "medianHue",
                      "darkPixelRatio", "burnedPixelRatio", "lightPixelRatio",
                      "totalPixels", "agtronScore"} :
               result.pixelStats[f] = expected.pixelStats[f]
        /\ \A f \in {"usdaColorScore", "processColorScore", "hueScore"} :
               result[f] = expected[f]

\* C12: no shadow pixel contributes to the pixel statistics and colour
\* scores of analyzeImage, nor to the cell averages detectDefects
\* classifies by.
C12_ShadowPixelsContributeNothing ==
    /\ detected # <<>>
          => CellAveragesShadowFree(heap[imageData.data], imageData.width, imageData.height)
    /\ Len(results) > 0
          => /\ StatisticsShadowFree(results[1], BalancedCopy,
                                     imageData.width, imageData.height)
             /\ CellAveragesShadowFree(BalancedCopy, imageData.width, imageData.height)

(***************************************************************************)
(* Claims about images without a qualifying pixel (checked under           *)
(* SpecMalformed)                                                          *)
(***************************************************************************)

\* No pixel of the caller's image is opaque enough (alpha >= 128) to count.
NoQualifyingPixel == \A i \in DOMAIN heap[imageData.data] : heap[imageData.data][i].a < 128

\* The record of a call is fully populated with the fallback values: means
\* and ratios 0, the pixel count 1 they were divided by, median hue 30, no
\* defects.
FallbackResult(result) ==
    /\ "rejected" \notin DOMAIN result
    /\ \A f \in {"meanR", "meanG", "meanB", "meanH", "meanS", "meanV",
                  "darkPixelRatio", "burnedPixelRatio", "lightPixelRatio",
                  "shadowMaskRatio"} : result.pixelStats[f] = 0
    /\ result.pixelStats.totalPixels = 1
    /\ result.pixelStats.medianHue = 30
    /\ result.defects = <<>>
    /\ result.defectCount = 0

\* C13: for an image without a qualifying pixel, all transparent or of no
\* pixels at all, every call of analyzeImage completes without error and
\* returns the fully populated fallback record.
C13_EmptyImageFallback ==
    NoQualifyingPixel => \A i \in 1..Len(results) : FallbackResult(results[i])

(***************************************************************************)
(* Claims about the golden image (checked under SpecAnalyze)               *)
(***************************************************************************)

\* Every pixel of the caller's image is the golden colour of hue 35
\* degrees, saturation 0.45 and value 0.63, fully opaque: rgb(161, 131, 88).
UniformGolden ==
    \A i \in DOMAIN heap[imageData.data] :
        heap[imageData.data][i] = [r |-> 161, g |-> 131, b |-> 88, a |-> 255]

\* C14: for a uniform golden image every call of analyzeImage returns no
\* defects, the four attribute scores 5 and the composite index 100.
C14_GoldenImageScoresTarget ==
    UniformGolden =>
        \A i \in 1..Len(results) :
            /\ results[i].defects = <<>>
            /\ results[i].processColorScore = 5
            /\ results[i].hueScore = 5
            /\ results[i].mottlingScore = 5
            /\ results[i].defectScore = 5
            /\ results[i].pqi = 100

\* A call has returned for a uniform golden image.
C14_Witness == UniformGolden /\ Len(results) > 0 /\ results[1].pqi = 100

(***************************************************************************)
(* Claims about rgbToHsv (checked under SpecHsv)                           *)
(***************************************************************************)

\* C15: for integer r, g, b in 0..255 rgbToHsv returns a hue in [0, 360),
\* a saturation in [0, 1] and a value in [0, 1], and hue 0 and saturation 0
\* when r = g = b.
C15_HsvInRange ==
    \A i \in 1..Len(returned) :
        /\ returned[i].h >= 0 /\ returned[i].h < 360
        /\ returned[i].s >= 0 /\ returned[i].s <= ONE
        /\ returned[i].v >= 0 /\ returned[i].v <= ONE
        /\ (args.r = args.g /\ args.g = args.b) => (returned[i].h = 0 /\ returned[i].s = 0)

\* rgbToHsv has returned for a colour whose hue comes out negative before
\* it is wrapped: red is the largest channel and green is below blue.
C15_Witness ==
    /\ Len(returned) = 1
    /\ args.r > args.b /\ args.b > args.g
    /\ returned[1].h > 300

(***************************************************************************)
(* Claims about strip grouping (checked under SpecDetect)                  *)
(***************************************************************************)

\* The summed width of the regions of list whose row-band by band is that
\* of d.
WidthInBand(list, band(_), d) ==
    SumTo([j \in 1..Len(list) |-> IF band(list[j]) = band(d) THEN list[j].width ELSE 0],
          Len(list))

\* The row-band with index y / 30 rounded to the nearest integer.
NearestBand(d) == (2 * d.y + 30) \div 60

\* Every returned region carries as coverage the summed width of the
\* regions of its band, of the whole list detectDefects has built (shadow
\* regions among them), over the image width.
CoverageByBand(band(_)) ==
    \A all \in {IF detected = <<>> THEN <<>> ELSE Candidates} :
        \A e \in Returned :
            e.stripCoverage = (WidthInBand(all, band, e) * ONE) \div imageData.width

C18_CoverageInUnitRange ==
    \A e \in Returned : e.stripCoverage >= 0 /\ e.stripCoverage <= ONE

(***************************************************************************)
(* Claims about the classification rules (checked under SpecDetect)        *)
(***************************************************************************)
\* The conditions of the four rules on a cell's averages.
BurntRule(cell) == cell.v < Frac(22, 100) /\ cell.s < Frac(35, 100)
DarkRule(cell, means) == means.v - cell.v > Frac(28, 100) /\ cell.s > Frac(18, 100)
LightRule(cell) == cell.v > Frac(87, 100) /\ cell.s < Frac(22, 100)
MottledRule(cell, means) ==
    Abs(means.h - cell.h) > 28 * ONE /\ means.v - cell.v > Frac(8, 100)

\* The first rule a cell matches in the order burnt, dark, light, mottled.
FirstRule(cell, means) ==
    CASE BurntRule(cell) -> "burnt"
      [] ~BurntRule(cell) /\ DarkRule(cell, means) -> "dark"
      [] ~BurntRule(cell) /\ ~DarkRule(cell, means) /\ LightRule(cell) -> "light"
      [] ~BurntRule(cell) /\ ~DarkRule(cell, means) /\ ~LightRule(cell)
           /\ MottledRule(cell, means) -> "mottled"
      [] OTHER -> "none"

\* The severity a rule gives, before position weighting.
RuleSeverity(rule, cell, means) ==
    CASE rule = "burnt" -> ONE - cell.v
      [] rule = "dark" -> means.v - cell.v
      [] rule = "light" -> (cell.v - Frac(87, 100)) * 5
      [] rule = "mottled" -> Abs(means.h - cell.h) \div 60
      [] OTHER -> 0

\* The kind a rule tags a cell of position weight pw with.
KindOf(rule, pw) ==
    IF rule = "light" THEN (IF 10 * pw > 12 * ONE THEN "sugar_end" ELSE "light")
    ELSE rule

\* The regions of list whose corner is that of grid cell k.
RegionsOfCell(list, k, gridW) ==
    {d \in Regions(list) :
        d.x = ((k - 1) % gridW) * CELL /\ d.y = ((k - 1) \div gridW) * CELL}

\* Cell k of grid is fry content and not majority shadow.
Classified(grid, k) == grid[k].isFry /\ ~grid[k].isShadow

\* list holds for every classified cell of grid what the first matching
\* rule says: nothing when no rule matches or the severity is at most
\* 0.15, else one region of the rule's kind.
AsRuled(grid, means, list, gridW, gridH) ==
    \A k \in 1..Len(grid) :
        Classified(grid, k) =>
            LET rule == FirstRule(grid[k], means)
                pw == PositionWeight((k - 1) % gridW, (k - 1) \div gridW, gridW, gridH)
                found == RegionsOfCell(list, k, gridW)
            IN  IF rule = "none" \/ RuleSeverity(rule, grid[k], means) <= Frac(15, 100)
                THEN found = {}
                ELSE /\ Cardinality(found) = 1
                     /\ \A d \in found : d.type = KindOf(rule, pw)

\* The grid detectDefects builds of the image.
ImageGrid == CellGrid(heap[imageData.data], imageData.width, imageData.height)

\* C19: for a fry cell that is not shadow the kind is that of the first
\* matching rule in the order burnt, dark, light/sugar_end, mottled
\* (sugar_end exactly when the position weight exceeds 1.2), and a cell
\* with no match, or with a severity of at most 0.15 before weighting,
\* emits no defect.
C19_FirstMatchingRule ==
    detected # <<>> =>
        \E grid \in {ImageGrid} :
            AsRuled(grid, GridMeans(grid), Candidates,
                    CeilDiv(imageData.width, CELL), CeilDiv(imageData.height, CELL))

\* C19 witness: detectDefects has returned a burnt region for a cell that
\* meets the burnt and the dark condition, and nothing for a cell that
\* meets the light condition with a severity of at most 0.15.
C19_Witness ==
    /\ detected # <<>>
    /\ \E grid \in {ImageGrid} :
          \E k, m \in 1..Len(grid) :
              /\ Classified(grid, k) /\ Classified(grid, m)
              /\ BurntRule(grid[k]) /\ DarkRule(grid[k], GridMeans(grid))
              /\ \E d \in RegionsOfCell(detected[1], k, CeilDiv(imageData.width, CELL)) :
                    d.type = "burnt"
              /\ FirstRule(grid[m], GridMeans(grid)) = "light"
              /\ RuleSeverity("light", grid[m], GridMeans(grid)) <= Frac(15, 100)
              /\ RegionsOfCell(detected[1], m, CeilDiv(imageData.width, CELL)) = {}

(***************************************************************************)
(* Claims about the position weight (checked under SpecDetect)             *)
(***************************************************************************)
\* Regions d and e lie in cells that mirror each other across the vertical
\* or the horizontal middle of the grid.
MirrorCells(d, e, gridW, gridH) ==
    \/ d.x \div CELL + e.x \div CELL = gridW - 1 /\ d.y = e.y
    \/ d.y \div CELL + e.y \div CELL = gridH - 1 /\ d.x = e.x

\* C20: the position weight treats the four edges alike: the regions
\* detectDefects returns for a cell and for its mirror cell carry the same
\* position weight.
C20_MirrorCellsWeighAlike ==
    \A d, e \in {r \in Returned : r.type # "shadow"} :
        MirrorCells(d, e, CeilDiv(imageData.width, CELL), CeilDiv(imageData.height, CELL))
            => d.positionWeight = e.positionWeight

(***************************************************************************)
(* Claims about deltaE2000 (checked under SpecDeltaE)                      *)
(***************************************************************************)
\* C16: deltaE2000 is 0 on identical arguments and symmetric: what it
\* returned for (lab1, lab2) is what it returns for (lab2, lab1), and 0
\* when lab1 = lab2.
C16_IdentityAndSymmetry ==
    returned # <<>> =>
        /\ args.lab1 = args.lab2 => returned[1] = 0
        /\ returned[1] = deltaE2000(args.lab2, args.lab1)

\* C16 witness: deltaE2000 has returned a positive distance for two
\* chromatic colours of different lightness whose hues lie more than 180
\* degrees apart.
C16_Witness ==
    /\ returned # <<>>
    /\ args.lab1.a > 0 /\ args.lab1.b > 0
    /\ args.lab2.a > 0 /\ 2 * args.lab2.b < -args.lab2.a
    /\ args.lab1.L # args.lab2.L
    /\ returned[1] > 0

(***************************************************************************)
(* Claims about the process-colour score (checked under SpecColorScore)    *)
(***************************************************************************)
\* The step of the deviation dev from 0.5, counted from the target: 1 below
\* 0.15, 2 below 0.25, 3 below 0.35, else 4.
DeviationStep(dev) ==
    IF dev < Frac(15, 100) THEN 1
    ELSE IF dev < Frac(25, 100) THEN 2
    ELSE IF dev < Frac(35, 100) THEN 3
    ELSE 4

\* C21: an Agtron estimate of 58..68, and no other, gives USDA 0.5 and
\* score 5; a darker one gives USDA 0.4, 0.2 or 0.0 and the score 4, 3, 2
\* or 1 by the deviation thresholds 0.15, 0.25, 0.35; a lighter one gives
\* USDA 0.6, 0.8 or 1.0 and the score 6, 7, 8 or 9 by the same thresholds.
C21_ProcessColourSteps ==
    \A out \in {returned[i] : i \in DOMAIN returned} :
        LET A == args.agtron
            usda == out.usdaScore
        IN  /\ A \in 58..68 => usda = Frac(5, 10) /\ out.processColor = 5
            /\ out.processColor = 5 => A \in 58..68
            /\ A < 58 =>
                  /\ usda \in {Frac(4, 10), Frac(2, 10), 0}
                  /\ out.processColor = 5 - DeviationStep(Frac(5, 10) - usda)
            /\ A > 68 =>
                  /\ usda \in {Frac(6, 10), Frac(8, 10), ONE}
                  /\ out.processColor = 5 + DeviationStep(usda - Frac(5, 10))

\* C21 witness: the estimate 69, next to the target band, was scored 6.
C21_Witness ==
    /\ args.agtron = 69
    /\ returned = <<[usdaScore |-> Frac(6, 10), processColor |-> 6]>>

(***************************************************************************)
(* Claims about the hue score (checked under SpecHueScore)                 *)
(***************************************************************************)
\* Saturation strictly between 0.3 and 0.6.
Moderate(meanS) == meanS > Frac(3, 10) /\ meanS < Frac(6, 10)

\* C22: a mean hue in [25, 40] with moderate saturation scores 5, a mean
\* hue in [20, 25) scores 4, and above 40 the score lies in 6..9, never
\* decreases as the hue increases at the same moderate saturation, and
\* takes each of the values 6, 7, 8 and 9 for some hue.
C22_HueBands ==
    \A score \in {returned[i] : i \in DOMAIN returned} :
        LET meanH == args.meanH
            meanS == args.meanS
            above == {h \in HueValues : h > 40 * ONE}
        IN  /\ meanH >= 25 * ONE /\ meanH <= 40 * ONE /\ Moderate(meanS) => score = 5
            /\ meanH >= 20 * ONE /\ meanH < 25 * ONE => score = 4
            /\ meanH > 40 * ONE /\ Moderate(meanS) =>
                  /\ score \in 6..9
                  /\ \A h \in above : h >= meanH => getHueScore(h, meanS) >= score
                  /\ \A n \in 6..9 : \E h \in above : getHueScore(h, meanS) = n

(***************************************************************************)
(* Claims about the defect score (checked under SpecDefectScore)           *)
(***************************************************************************)
\* 9, 8, 7, 6 for the highest threshold that the burnt-pixel ratio
\* burnedPx / validPx or the severity sum exceeds, else 5.
ThresholdScore(burnedPx, validPx, sum) ==
    CASE 10 * burnedPx > 3 * validPx \/ sum > 15 * ONE -> 9
      [] OTHER ->
           CASE 10 * burnedPx > 2 * validPx \/ sum > 10 * ONE -> 8
             [] OTHER ->
                  CASE 10 * burnedPx > validPx \/ sum > 6 * ONE -> 7
                    [] OTHER ->
                         IF 20 * burnedPx > validPx \/ sum > 3 * ONE THEN 6 ELSE 5

\* The severity sum over the classified cells described by a, each rule
\* severity weighted once: a tip cell counts 1.5 times its rule severity,
\* a body cell its rule severity, a shadow cell nothing.
OnceWeightedSum(a) == a.tips * ((a.severity * 3) \div 2) + a.body * a.severity

\* The same with each cell's weighted severity clamped to 1, as stored.
OnceWeightedClampedSum(a) ==
    a.tips * Min2(ONE, (a.severity * 3) \div 2) + a.body * Min2(ONE, a.severity)

\* C23: the defect score is 9/8/7/6 for the highest threshold exceeded by
\* the burnt-pixel ratio (0.3/0.2/0.1/0.05) or by the position-weighted
\* severity sum (15/10/6/3), else 5, where the sum is over the non-artifact
\* defects and weights each rule severity once: a tip defect of rule
\* severity s counts at most 1.5 * s and at least its stored severity.
C23_DefectScoreWeightedOnce ==
    \A score \in {returned[i] : i \in DOMAIN returned} :
        /\ score <= ThresholdScore(args.pixels.burnedPx, args.pixels.validPx,
                                   OnceWeightedSum(args))
        /\ score >= ThresholdScore(args.pixels.burnedPx, args.pixels.validPx,
                                   OnceWeightedClampedSum(args))

(***************************************************************************)
(* Claims about the explainability grid (checked under SpecGradCam)        *)
(***************************************************************************)
\* What region d adds to the cell (nx, ny), counted from 0: severity times
\* falloff times position weight within radius 2 when d is not an artifact.
CamShare(d, nx, ny) ==
    LET dx == nx - d.x \div CELL
        dy == ny - d.y \div CELL
    IN  IF d.isArtifact \/ Abs(dx) > 2 \/ Abs(dy) > 2 THEN 0
        ELSE (((d.severity * CamWeight(dx, dy)) \div ONE) * d.positionWeight) \div ONE

\* The sum of the shares of the regions of list in the cell (nx, ny).
CamSum(list, nx, ny) ==
    SumTo([j \in 1..Len(list) |-> CamShare(list[j], nx, ny)], Len(list))

Closer(score) == IF score < 5 THEN score + 1 ELSE score - 1

\* C25: replacing one of the four scores by the value one step closer to 5
\* never decreases the index: what fuzzyPQI returns for the replaced
\* vector is at least what it returned.
C25_CloserNeverLower ==
    \A index \in {pqi[i] : i \in DOMAIN pqi} :
        \A i \in 1..4 :
            scores[i] # 5 => fuzzyPQI([scores EXCEPT ![i] = Closer(@)]) >= index

\* C25 witness: an index below 100 was returned for a vector holding a 4
\* or a 6, and the vector with that score replaced by 5 gets a higher one.
C25_Witness ==
    /\ pqi # <<>>
    /\ pqi[1] < 100
    /\ \E i \in 1..4 :
          /\ scores[i] \in {4, 6}
          /\ fuzzyPQI([scores EXCEPT ![i] = 5]) > pqi[1]

(***************************************************************************)
(* Claims about the regions of one cell (checked under SpecDetect)         *)
(***************************************************************************)
\* The rectangles of regions d and e have no pixel in common.
Disjoint(d, e) ==
    \/ d.x + d.width <= e.x
    \/ e.x + e.width <= d.x
    \/ d.y + d.height <= e.y
    \/ e.y + e.height <= d.y

\* C26: each grid cell contributes at most one region to the result of
\* detectDefects, a majority-shadow cell only its shadow region, and the
\* rectangles of any two returned regions are disjoint.
C26_OneRegionPerCell ==
    \A list \in {detected[i] : i \in DOMAIN detected} :
        /\ \A i, j \in DOMAIN list : i # j => Disjoint(list[i], list[j])
        /\ \E grid \in {ImageGrid} :
              \A k \in DOMAIN grid :
                  LET found == {i \in DOMAIN list :
                                  /\ list[i].x = ((k - 1) % CeilDiv(imageData.width, CELL)) * CELL
                                  /\ list[i].y = ((k - 1) \div CeilDiv(imageData.width, CELL)) * CELL}
                  IN  /\ Cardinality(found) <= 1
                      /\ grid[k].isShadow => \A i \in found : list[i].type = "shadow"

\* C26 witness: detectDefects has returned a shadow region, and nothing
\* else, for a majority-shadow cell whose averages match the mottled rule,
\* next to the region of another cell.
C26_Witness ==
    /\ detected # <<>>
    /\ \E grid \in {ImageGrid} :
          \E d, e \in Returned :
              /\ d.type = "shadow" /\ e.type # "shadow"
              /\ d.y = e.y /\ d.x + d.width = e.x
              /\ \E k \in DOMAIN grid :
                    /\ RegionsOfCell(detected[1], k, CeilDiv(imageData.width, CELL)) = {d}
                    /\ grid[k].isShadow
                    /\ FirstRule(grid[k], GridMeans(grid)) = "mottled"
                    /\ RuleSeverity("mottled", grid[k], GridMeans(grid)) > Frac(15, 100)

(***************************************************************************)
(* Claims about the area of a region (checked under SpecDetect)            *)
(***************************************************************************)
\* C27: every region detectDefects returns has area = width * height, and
\* for ppm > 0 areamm2 = area / ppm^2 (in hundredths, ppm in hundredths),
\* regions of clipped cells and shadow regions included.
C27_AreaIsWidthTimesHeight ==
    \A d \in Returned :
        /\ d.area = d.width * d.height
        /\ ppm > 0 => d.areamm2 = (d.area * 100 * 100 * 100) \div (ppm * ppm)

(***************************************************************************)
(* Claims about the upload flow (checked under SpecUpload)                 *)
(***************************************************************************)

\* C28: isAnalyzing is true in every state in which some upload has set it
\* and its analysis has not finished yet, and false in every state in which
\* no upload is in that position, whatever the order of the steps of the
\* uploads and whether analyzeImage returned or rejected.
C28_AnalyzingWhileAnyRuns ==
    ui.isAnalyzing <=> \E i \in DOMAIN uploads : uploads[i].at = "waiting"

\* C29: when exactly two files have been submitted, the step that completes
\* the second of the two analyses leaves the result of Index and the
\* defects of ImageAnalyzer those of the file submitted last.
C29_LastSubmittedWins ==
    [][(/\ Len(uploads) = 2
        /\ \E i \in 1..2 : uploads[i].at = "waiting"
        /\ \A i \in 1..2 : uploads'[i].at = "done")
       => (ui'.result = <<uploads[2].url>> /\ ui'.defects = <<uploads[2].url>>)]_vars

(***************************************************************************)
(* Claims about the calibration panel (checked under SpecCalibration)      *)
(***************************************************************************)

\* x is a finite number (neither Infinity nor NaN).
IsFinite(x) == x.den > 0

\* C30: after any sequence of applies and resets the calibration has a
\* positive finite ppm, which is pixelLength / referenceLength when
\* isCalibrated is true; a reset leaves DEFAULT_CALIBRATION; an apply with
\* a non-positive input leaves the calibration as it was.
C30_CalibrationStaysValid ==
    /\ [](/\ IsPositive(ui.calibration.ppm)
          /\ IsFinite(ui.calibration.ppm)
          /\ ui.calibration.isCalibrated =>
                ui.calibration.ppm = Divide(ui.calibration.pixelLength,
                                            ui.calibration.referenceLength))
    /\ [][/\ HandleReset =>
                (ui'.calibration = DEFAULT_CALIBRATION /\ ~ui'.calibration.isCalibrated)
          /\ (HandleManualCalibrate
                /\ (~IsPositive(ui.pixelLength) \/ ~IsPositive(ui.refLength)))
               => ui'.calibration = ui.calibration]_vars

====
